---------------------------- MODULE Spec2Model ----------------------------
(***************************************************************************)
(* Model of the matching core of job-application-assistant:                *)
(*   RAGRanker        (src/processing/rag_ranker.py)                       *)
(*   ProjectSelector  (src/ai_generation/rag/project_selector.py)          *)
(*   PageOptimizer    (src/ai_generation/rag/page_optimizer.py)            *)
(*   RAGPipeline      (src/ai_generation/rag/rag_pipeline.py)              *)
(*   Retriever        (src/ai_generation/embeddings/retriever.py)          *)
(*                                                                         *)
(* Conventions.                                                            *)
(*  - A Python float score is a fixed-point integer in units of 1/One, so  *)
(*    1.0 is One and 0.5 is One \div 2.  Every ratio the catalogues can    *)
(*    produce divides One, so the arithmetic is exact (the rounding of     *)
(*    IEEE doubles is not modelled).                                       *)
(*  - A Python str on which the code does substring or split operations   *)
(*    is a sequence of one-character strings.  A str that is only compared *)
(*    after lower() is an atomic token with a Lower map.                   *)
(*  - A dictionary field is a record [kind, v]: kind "absent" (no such     *)
(*    key), "none" (key bound to None) or "val".                           *)
(*  - A call that may raise returns [exc |-> BOOLEAN, val |-> result].     *)
(***************************************************************************)
EXTENDS Integers, Sequences, FiniteSets, TLC

VARIABLES
    \* ---- RAGRanker.rank_jobs ----
    db_user,        \* what _get_user_profile finds for user_id
    vs_profile,     \* the "user_profiles" vector collection entry for user_id
    jobs,           \* the input list of job dictionaries
    top_n,          \* Optional[int]
    i,              \* loop position in rank_jobs (number of jobs processed)
    ranked_jobs,    \* the local list ranked_jobs
    rank_pc,        \* "idle" | "loop" | "done" | "raised"
    jobs_in,        \* history: the list and the dictionaries as passed
    par_in_flight,  \* worker pool: positions of the jobs being scored
    par_order,      \* worker pool: positions in order of completion
    par_slots,      \* worker pool: position -> entry, <<>> while not scored
    \* ---- ProjectSelector.select_relevant_projects ----
    sel_job,            \* the job dictionary
    max_projects,       \* the argument max_projects
    vs_job,             \* outcome of the "job_descriptions" lookup of job_id
    vs_query_raises,    \* whether query_collection raises
    vs_index,           \* the user's indexed projects, nearest first
    db_projects,        \* UserProject rows: id -> "ok" | "missing" | "raise"
    relevant_projects,  \* the list returned by find_relevant_projects
    sel_k,              \* number of candidates processed by the loop
    scored_projects,    \* the local list scored_projects
    selected,           \* the value returned
    sel_exc,            \* history: an exception was raised during the call
    sel_pc,             \* "idle" | "start" | "loop" | "done" | "raised"
    \* ---- PageOptimizer.optimize_content ----
    content,            \* the draft content dictionary
    target_pages,       \* the argument target_pages
    include_projects,   \* the argument include_projects
    optimized,          \* the local dictionary optimized (the value returned)
    total_words,        \* the local total_words
    aggressive,         \* history: _aggressive_optimize was applied
    opt_pc,             \* "idle" | "start" | "counted" | "done"
    \* ---- RAGPipeline.build_context_for_cv / build_context_for_cover_letter ----
    pipe_kind,          \* "cv" | "cover_letter": which operation is called
    cv_preferences,     \* the argument cv_preferences (None or a dictionary)
    store_profile,      \* the users/user_profiles read: "found"|"absent"|"raise"
    store_job,          \* the jobs read: "found" | "absent" | "raise"
    proj_desc_none,     \* ids of the UserProject rows whose description is NULL
    profile_context,    \* the local profile_context
    job_context,        \* the local job_context
    pipe_trace,         \* history: the steps invoked so far, in order
    context,            \* the dictionary returned
    pipe_cause,         \* history: what raised ("none"|"store_read"|"format")
    pipe_pc             \* "idle"|"start"|"job"|"projects"|"selecting"
                        \*   |"returned"|"raised"

rankVars == <<db_user, vs_profile, jobs, top_n, i, ranked_jobs, rank_pc,
              jobs_in, par_in_flight, par_order, par_slots>>

selVars == <<sel_job, max_projects, vs_job, vs_query_raises, vs_index,
             db_projects, relevant_projects, sel_k, scored_projects, selected,
             sel_exc, sel_pc>>

optVars == <<content, target_pages, include_projects, optimized, total_words,
             aggressive, opt_pc>>

pipeVars == <<pipe_kind, cv_preferences, store_profile, store_job,
              proj_desc_none, profile_context, job_context, pipe_trace,
              context, pipe_cause, pipe_pc>>

vars == <<rankVars, selVars, optVars, pipeVars>>

(***************************************************************************)
(* Bounds of the model.                                                    *)
(***************************************************************************)
MaxJobs == 3
MaxProjects == 2

(***************************************************************************)
(* Generic helpers.                                                        *)
(***************************************************************************)
Min(a, b) == IF a <= b THEN a ELSE b

\* Python s[:n] for n >= 0.
Take(s, n) == SubSeq(s, 1, Min(n, Len(s)))

\* Python s[:n] for any integer n (a negative n counts from the end).
PySlice(s, n) ==
    IF n >= 0 THEN Take(s, n)
    ELSE IF Len(s) + n <= 0 THEN <<>> ELSE SubSeq(s, 1, Len(s) + n)

\* The fixed-point representation of the float 1.0.
One == 600

Absent == [kind |-> "absent", v |-> <<>>]
NoneV == [kind |-> "none", v |-> <<>>]
Val(x) == [kind |-> "val", v |-> x]

\* dict.get(key, default): the default only replaces a missing key.
Get(field, default) == IF field.kind = "absent" THEN Val(default) ELSE field

\* Python truthiness of a str/list field value: None and empty are falsy.
Truthy(field) == field.kind = "val" /\ field.v # <<>>

Ok(x) == [exc |-> FALSE, val |-> x]
Raise == [exc |-> TRUE, val |-> 0]

(***************************************************************************)
(* Strings as character sequences.                                         *)
(***************************************************************************)
\* str.lower() on one character of the catalogue alphabet.
LowerChar(c) ==
    CASE c = "R" -> "r" [] c = "P" -> "p" [] c = "L" -> "l"
      [] c = "F" -> "f" [] c = "C" -> "c" [] c = "D" -> "d"
      [] c = "I" -> "i" [] c = "S" -> "s" [] OTHER -> c

LowerStr(s) == [k \in 1..Len(s) |-> LowerChar(s[k])]

\* Python `a in b` for str.
IsSubstr(a, b) ==
    \E k \in 0..(Len(b) - Len(a)) : SubSeq(b, k + 1, k + Len(a)) = a

\* set(s.split()): the maximal runs of non-blank characters.
SplitSet(s) ==
    { SubSeq(s, a, b) : <<a, b>> \in
        { p \in (1..Len(s)) \X (1..Len(s)) :
            /\ p[1] <= p[2]
            /\ \A k \in p[1]..p[2] : s[k] # " "
            /\ (p[1] = 1 \/ s[p[1] - 1] = " ")
            /\ (p[2] = Len(s) \/ s[p[2] + 1] = " ") } }

\* str.lower() on an atomic token (skills, languages, language codes).
LowerTok(t) ==
    CASE t = "Python" -> "python" [] t = "PYTHON" -> "python"
      [] t = "TensorFlow" -> "tensorflow"
      [] t = "Machine Learning" -> "machine learning"
      [] t = "Java" -> "java" [] t = "Docker" -> "docker"
      [] t = "English" -> "english" [] t = "French" -> "french"
      [] t = "Anglais" -> "anglais" [] t = "Francais" -> "francais"
      [] t = "German" -> "german"
      [] t = "EN" -> "en" [] t = "FR" -> "fr" [] t = "DE" -> "de"
      [] OTHER -> t

LowerSet(list) == {LowerTok(list[k]) : k \in 1..Len(list)}


(***************************************************************************)
(* EmbeddingGenerator.calculate_similarity on 2-dimensional integer        *)
(* vectors.  The catalogue vectors have integral norms, so the floor       *)
(* square root is the exact norm.                                          *)
(***************************************************************************)
Dot(a, b) == a[1] * b[1] + a[2] * b[2]

ISqrt(n) == CHOOSE r \in 0..n : r * r <= n /\ (r + 1) * (r + 1) > n

Norm(a) == ISqrt(Dot(a, a))

\* Mutant of RescaleCosine: the raw cosine, not rescaled to [0,1].
RescaleCosine_raw(dot, n1, n2) == (One * dot) \div (n1 * n2)

\* (cos + 1) / 2 as a fixed-point number.
RescaleCosine(dot, n1, n2) == (One * (dot + n1 * n2)) \div (2 * n1 * n2)

calculate_similarity(embedding1, embedding2) ==
    LET norm1 == Norm(embedding1)
        norm2 == Norm(embedding2)
    IN  IF norm1 = 0 \/ norm2 = 0 THEN 0
        ELSE RescaleCosine(Dot(embedding1, embedding2), norm1, norm2)

(***************************************************************************)
(* RAGRanker: the component scores.  `user_profile` is the dictionary      *)
(* built by _get_user_profile, `vs` the vector-store entry of the user.    *)
(***************************************************************************)
\* Mutant of calculate_semantic_similarity: no try/except, a failing lookup or
\* embedding computation raises.
calculate_semantic_similarity_unguarded(vs, job) ==
    IF vs.kind = "raise" THEN Raise
    ELSE IF vs.kind = "missing" THEN Ok(0)
    ELSE IF job.embed.exc THEN Raise
    ELSE Ok(calculate_similarity(vs.vec, job.embed.val))

\* Never raises: the whole body is inside try/except returning 0.0.
calculate_semantic_similarity(vs, job) ==
    IF vs.kind = "raise" THEN Ok(0)
    ELSE IF vs.kind = "missing" THEN Ok(0)
    ELSE IF job.embed.exc THEN Ok(0)
    ELSE Ok(calculate_similarity(vs.vec, job.embed.val))

\* Mutant of calculate_skill_match: the overlap is divided by the size of the
\* union (Jaccard index), not by the number of required skills.
calculate_skill_match_jaccard(user_profile, job) ==
    LET rs == Get(job.required_skills, <<>>)
    IN  IF rs.kind = "none" THEN Raise
        ELSE
          LET user_skills == LowerSet(user_profile.skills)
              job_skills == LowerSet(rs.v)
          IN  IF job_skills = {} THEN Ok(One \div 2)
              ELSE Ok((Cardinality(user_skills \cap job_skills) * One)
                          \div Cardinality(user_skills \cup job_skills))

calculate_skill_match(user_profile, job) ==
    LET rs == Get(job.required_skills, <<>>)
    IN  IF rs.kind = "none" THEN Raise      \* iterating None: TypeError
        ELSE
          LET user_skills == LowerSet(user_profile.skills)
              job_skills == LowerSet(rs.v)
              overlap == user_skills \cap job_skills
          IN  IF job_skills = {} THEN Ok(One \div 2)
              ELSE Ok((Cardinality(overlap) * One) \div Cardinality(job_skills))

calculate_location_match(user_profile, job) ==
    LET ul == user_profile.location_preference   \* key always present
        jl == Get(job.location, <<>>)
    IN  IF ul.kind = "none" \/ jl.kind = "none" THEN Raise   \* None.lower()
        ELSE
          LET user_location == LowerStr(ul.v)
              job_location == LowerStr(jl.v)
          IN  IF user_location = <<>> \/ job_location = <<>>
                THEN Ok(One \div 2)
              ELSE IF IsSubstr(<<"r", "e", "m", "o", "t", "e">>, job_location)
                THEN Ok(One)
              ELSE IF IsSubstr(user_location, job_location)
                      \/ IsSubstr(job_location, user_location)
                THEN Ok(One)
              ELSE IF SplitSet(user_location) \cap SplitSet(job_location) # {}
                THEN Ok((7 * One) \div 10)
              ELSE Ok(0)

calculate_job_type_match(user_profile, job) ==
    LET preferred_types == Get(user_profile.preferred_job_types, <<>>)
        jt == Get(job.job_type, <<>>)
    IN  IF ~Truthy(preferred_types) THEN Ok(One \div 2)
        ELSE IF jt.kind = "none" THEN Raise      \* None.lower()
        ELSE
          LET job_type == LowerStr(jt.v)
              prefs == {LowerStr(preferred_types.v[k]) :
                            k \in 1..Len(preferred_types.v)}
          IN  IF \E pref_type \in prefs :
                    IsSubstr(pref_type, job_type) \/ IsSubstr(job_type, pref_type)
                THEN Ok(One)
              ELSE Ok(0)

calculate_language_match(user_profile, job) ==
    LET user_languages == LowerSet(user_profile.languages)
        jl == Get(job.language, "en")
    IN  IF jl.kind = "none" THEN Raise           \* None.lower()
        ELSE
          LET job_language == LowerTok(jl.v)
          IN  IF ("english" \in user_languages \/ "anglais" \in user_languages)
                 /\ job_language = "en" THEN Ok(One)
              ELSE IF ("french" \in user_languages
                       \/ "français" \in user_languages
                       \/ "francais" \in user_languages)
                      /\ job_language = "fr" THEN Ok(One)
              ELSE Ok(One \div 2)

\* posting_date.kind: "absent" | "none" | "string" (not a datetime)
\*   | "naive" (datetime, age = (now - posting_date).days)
\*   | "aware" (timezone-aware datetime: now - posting_date is a TypeError)
calculate_freshness_score(job) ==
    LET pd == job.posting_date
    IN  IF pd.kind \in {"absent", "none", "string"} THEN Ok(One \div 2)
        ELSE IF pd.kind = "aware" THEN Raise
        ELSE IF pd.age <= 1 THEN Ok(One)
        ELSE IF pd.age <= 3 THEN Ok((9 * One) \div 10)
        ELSE IF pd.age <= 7 THEN Ok((8 * One) \div 10)
        ELSE IF pd.age <= 14 THEN Ok((6 * One) \div 10)
        ELSE IF pd.age <= 30 THEN Ok((4 * One) \div 10)
        ELSE Ok((2 * One) \div 10)

\* embed_job is called inside try/except; both paths return 0.0.
calculate_past_success_boost(job) == IF job.embed.exc THEN 0 ELSE 0

W_SEMANTIC == 30
W_SKILL == 30
W_LOCATION == 15
W_JOB_TYPE == 15
W_LANGUAGE == 5
W_FRESHNESS == 5

\* Mutant of WeightedTotal: the skill and location weights are swapped.
WeightedTotal_swapped(sem, skill, loc, jtype, lang, fresh, boost) ==
    sem * W_SEMANTIC + skill * W_LOCATION + loc * W_SKILL
    + jtype * W_JOB_TYPE + lang * W_LANGUAGE + fresh * W_FRESHNESS + boost

WeightedTotal(sem, skill, loc, jtype, lang, fresh, boost) ==
    sem * W_SEMANTIC + skill * W_SKILL + loc * W_LOCATION
    + jtype * W_JOB_TYPE + lang * W_LANGUAGE + fresh * W_FRESHNESS + boost

\* _get_user_profile: None when the user or the profile row is missing or the
\* query raises; otherwise the dictionary.
get_user_profile(db) == db

\* _calculate_match_score: [exc, val |-> [total_score, breakdown]].
\* breakdown is "error" (profile not found) or "scores".
calculate_match_score(db, vs, job) ==
    LET user_profile == get_user_profile(db)
    IN  IF ~user_profile.found
          THEN Ok([total_score |-> 0, breakdown |-> "error"])
        ELSE
          LET semantic_score == calculate_semantic_similarity(vs, job)
              skill_score == calculate_skill_match(user_profile, job)
              location_score == calculate_location_match(user_profile, job)
              job_type_score == calculate_job_type_match(user_profile, job)
              language_score == calculate_language_match(user_profile, job)
              freshness_score == calculate_freshness_score(job)
              past_success_boost == calculate_past_success_boost(job)
          IN  IF semantic_score.exc \/ skill_score.exc \/ location_score.exc
                 \/ job_type_score.exc \/ language_score.exc
                 \/ freshness_score.exc
                THEN Raise
              ELSE Ok([total_score |->
                          WeightedTotal(semantic_score.val, skill_score.val,
                                        location_score.val, job_type_score.val,
                                        language_score.val, freshness_score.val,
                                        past_success_boost),
                       breakdown |-> "scores"])

(***************************************************************************)
(* RAGRanker.rank_jobs.                                                    *)
(***************************************************************************)
\* Mutant of score_one_job: no except clause, the exception leaves the loop.
score_one_job_uncaught(db, vs, job) ==
    LET match_data == calculate_match_score(db, vs, job)
    IN  [raised |-> match_data.exc,
         job_after |-> job,
         entry |-> [job |-> job,
                    match_score |-> IF match_data.exc THEN 0
                                    ELSE match_data.val.total_score,
                    match_score_breakdown |-> IF match_data.exc THEN "empty"
                                              ELSE match_data.val.breakdown]]

\* Mutant of score_one_job: the score keys are written into the input
\* dictionary itself (job_with_score = job), which is then appended.
score_one_job_in_place(db, vs, job) ==
    LET match_data == calculate_match_score(db, vs, job)
        entry == [job |-> job,
                  match_score |-> IF match_data.exc THEN 0
                                  ELSE match_data.val.total_score,
                  match_score_breakdown |-> IF match_data.exc THEN "empty"
                                            ELSE match_data.val.breakdown]
    IN  [raised |-> FALSE, job_after |-> entry, entry |-> entry]

\* Lines 52-69: the body of the loop for one job.  `raised` tells whether an
\* exception leaves the loop body (it never does: the handler builds the
\* zero-score entry).  An entry is {**job}, a new dictionary, plus the two
\* score keys; job_after is the input dictionary after the iteration.
score_one_job(db, vs, job) ==
    LET match_data == calculate_match_score(db, vs, job)
    IN  IF ~match_data.exc
          THEN [raised |-> FALSE,
                job_after |-> job,
                entry |-> [job |-> job,
                           match_score |-> match_data.val.total_score,
                           match_score_breakdown |-> match_data.val.breakdown]]
          ELSE [raised |-> FALSE,
                job_after |-> job,
                entry |-> [job |-> job,
                           match_score |-> 0,
                           match_score_breakdown |-> "empty"]]

\* Mutant of InsertDesc: ties are reversed (an unstable descending sort).
InsertDesc_unstable(sorted, e) ==
    LET before == {k \in 1..Len(sorted) : sorted[k].match_score > e.match_score}
        n == Cardinality(before)
    IN  SubSeq(sorted, 1, n) \o <<e>> \o SubSeq(sorted, n + 1, Len(sorted))

\* list.sort(key=match_score, reverse=True): a stable sort, so an element goes
\* after every element already placed whose key is >= its own.
InsertDesc(sorted, e) ==
    LET before == {k \in 1..Len(sorted) : sorted[k].match_score >= e.match_score}
        n == Cardinality(before)
    IN  SubSeq(sorted, 1, n) \o <<e>> \o SubSeq(sorted, n + 1, Len(sorted))

RECURSIVE SortDescFrom(_, _, _)
SortDescFrom(list, k, acc) ==
    IF k > Len(list) THEN acc
    ELSE SortDescFrom(list, k + 1, InsertDesc(acc, list[k]))

sort_by_match_score(list) == SortDescFrom(list, 1, <<>>)

\* `if top_n: ranked_jobs = ranked_jobs[:top_n]`; None and 0 are falsy.
truncate_top_n(list, topn) ==
    IF topn.set /\ topn.n # 0 THEN PySlice(list, topn.n) ELSE list

(***************************************************************************)
(* Catalogues of inputs.                                                   *)
(***************************************************************************)
S_Remote == <<"R", "e", "m", "o", "t", "e">>
S_remoteFR == <<"f", "u", "l", "l", " ", "r", "e", "m", "o", "t", "e">>
S_Paris == <<"P", "a", "r", "i", "s">>
S_ParisFR == <<"P", "a", "r", "i", "s", " ", "F", "R">>
S_LyonFR == <<"L", "y", "o", "n", " ", "F", "R">>
S_Lyon == <<"l", "y", "o", "n">>
S_CDI == <<"C", "D", "I">>
S_Stage == <<"S", "t", "a", "g", "e">>
S_cdiLong == <<"c", "d", "i", " ", "c", "a", "d", "r", "e">>

NoDate == [kind |-> "absent", age |-> 0]
DateKinds ==
    {NoDate, [kind |-> "none", age |-> 0], [kind |-> "string", age |-> 0],
     [kind |-> "aware", age |-> 0]}
    \cup {[kind |-> "naive", age |-> a] :
            a \in {-1, 0, 1, 2, 3, 4, 7, 8, 14, 15, 30, 31, 400}}

Vectors == {<<3, 4>>, <<4, 3>>, <<-3, -4>>, <<5, 0>>, <<0, 0>>}

BaseJob ==
    [id |-> 1,
     required_skills |-> Val(<<"Python", "TensorFlow", "Machine Learning">>),
     location |-> Val(S_ParisFR),
     job_type |-> Val(S_CDI),
     language |-> Val("en"),
     posting_date |-> [kind |-> "naive", age |-> 5],
     embed |-> Ok(<<3, 4>>)]

SkillLists ==
    {<<>>, <<"Python">>, <<"python", "PYTHON">>, <<"Java", "Docker">>,
     <<"Python", "TensorFlow">>, <<"Python", "TensorFlow", "Machine Learning">>,
     <<"Java", "python", "Docker", "TensorFlow">>}

JobLocations ==
    {Absent, NoneV, Val(<<>>), Val(S_Remote), Val(S_remoteFR), Val(S_Paris),
     Val(S_ParisFR), Val(S_LyonFR), Val(S_Lyon)}

JobTypes == {Absent, NoneV, Val(<<>>), Val(S_CDI), Val(S_Stage), Val(S_cdiLong)}

JobLanguages == {Absent, NoneV, Val("en"), Val("FR"), Val("de")}

\* Every value of every field, varied one field at a time around BaseJob, and
\* the two extreme jobs.
JobCatalog ==
    {[BaseJob EXCEPT !.required_skills = x] :
        x \in {Absent, NoneV} \cup {Val(l) : l \in SkillLists}}
    \cup {[BaseJob EXCEPT !.location = x] : x \in JobLocations}
    \cup {[BaseJob EXCEPT !.job_type = x] : x \in JobTypes}
    \cup {[BaseJob EXCEPT !.language = x] : x \in JobLanguages}
    \cup {[BaseJob EXCEPT !.posting_date = x] : x \in DateKinds}
    \cup {[BaseJob EXCEPT !.embed = x] : x \in {Raise} \cup {Ok(v) : v \in Vectors}}
    \cup {[BaseJob EXCEPT !.posting_date = [kind |-> "naive", age |-> 0]],
          [BaseJob EXCEPT !.required_skills = Val(<<"Java">>),
                          !.location = Val(S_Lyon),
                          !.job_type = Val(S_Stage),
                          !.language = Val("de"),
                          !.posting_date = [kind |-> "naive", age |-> 400],
                          !.embed = Ok(<<-3, -4>>)]}

\* The jobs ranked together: distinct ids, equal and different scores, and
\* jobs whose scoring raises.
RankCatalog ==
    {BaseJob,
     [BaseJob EXCEPT !.id = 2],
     [BaseJob EXCEPT !.id = 3, !.location = NoneV],
     [BaseJob EXCEPT !.id = 4, !.required_skills = Val(<<"Java">>),
                     !.embed = Ok(<<-3, -4>>)],
     [BaseJob EXCEPT !.id = 5, !.location = Val(S_Remote),
                     !.posting_date = [kind |-> "naive", age |-> 0]]}

BaseProfile ==
    [found |-> TRUE,
     location_preference |-> Val(S_Paris),
     preferred_job_types |-> Val(<<S_CDI>>),
     skills |-> <<"Python", "TensorFlow">>,
     languages |-> <<"English", "French">>]

NotFoundProfile ==
    [found |-> FALSE,
     location_preference |-> NoneV,
     preferred_job_types |-> Absent,
     skills |-> <<>>,
     languages |-> <<>>]

ProfileCatalog ==
    {NotFoundProfile}
    \cup {[BaseProfile EXCEPT !.location_preference = x] :
            x \in {NoneV, Val(<<>>), Val(S_Paris), Val(S_ParisFR), Val(S_Lyon)}}
    \cup {[BaseProfile EXCEPT !.preferred_job_types = x] :
            x \in {Absent, NoneV, Val(<<>>), Val(<<S_CDI>>),
                   Val(<<S_Stage, S_cdiLong>>)}}
    \cup {[BaseProfile EXCEPT !.skills = x] :
            x \in {<<>>, <<"PYTHON">>,
                   <<"Python", "TensorFlow", "Machine Learning", "Docker">>}}
    \cup {[BaseProfile EXCEPT !.languages = x] :
            x \in {<<>>, <<"Anglais">>, <<"Francais">>, <<"German">>}}

VsCatalog ==
    {[kind |-> "raise", vec |-> <<0, 0>>], [kind |-> "missing", vec |-> <<0, 0>>]}
    \cup {[kind |-> "vec", vec |-> v] : v \in {<<3, 4>>, <<0, 0>>}}

\* The stores a call can meet: every profile with the base embedding, and the
\* base profile with every embedding state.
StoreCatalog ==
    {<<p, [kind |-> "vec", vec |-> <<3, 4>>]>> : p \in ProfileCatalog}
    \cup {<<BaseProfile, v>> : v \in VsCatalog}

RECURSIVE DistinctLists(_, _)
DistinctLists(S, n) ==
    IF n = 0 THEN {<<>>}
    ELSE LET shorter == DistinctLists(S, n - 1)
         IN  shorter \cup
             {Append(l, x) : <<l, x>> \in
                {q \in shorter \X S :
                    Len(q[1]) = n - 1 /\ \A k \in 1..Len(q[1]) : q[1][k].id # q[2].id}}

JobLists == DistinctLists(RankCatalog, MaxJobs) \cup {<<j>> : j \in JobCatalog}

TopNs == {[set |-> FALSE, n |-> 0]} \cup {[set |-> TRUE, n |-> k] : k \in -1..MaxJobs}

(***************************************************************************)
(* The state machine of rank_jobs.                                         *)
(***************************************************************************)
RankIdle ==
    /\ db_user = NotFoundProfile
    /\ vs_profile = [kind |-> "missing", vec |-> <<0, 0>>]
    /\ jobs = <<>>
    /\ top_n = [set |-> FALSE, n |-> 0]
    /\ i = 0
    /\ ranked_jobs = <<>>
    /\ rank_pc = "idle"
    /\ jobs_in = <<>>
    /\ par_in_flight = {}
    /\ par_order = <<>>
    /\ par_slots = <<>>

RankInit ==
    /\ \E st \in StoreCatalog : db_user = st[1] /\ vs_profile = st[2]
    /\ jobs \in JobLists
    /\ top_n \in TopNs
    /\ i = 0
    /\ ranked_jobs = <<>>
    /\ rank_pc = "loop"
    /\ jobs_in = jobs
    /\ par_in_flight = {}
    /\ par_order = <<>>
    /\ par_slots = <<>>

\* One iteration of `for i, job in enumerate(jobs)`.
ScoreJob ==
    /\ rank_pc = "loop"
    /\ i < Len(jobs)
    /\ LET r == score_one_job(db_user, vs_profile, jobs[i + 1])
       IN  IF r.raised
             THEN /\ rank_pc' = "raised"
                  /\ UNCHANGED <<i, ranked_jobs, jobs>>
             ELSE /\ ranked_jobs' = Append(ranked_jobs, r.entry)
                  /\ jobs' = [jobs EXCEPT ![i + 1] = r.job_after]
                  /\ i' = i + 1
                  /\ UNCHANGED rank_pc
    /\ UNCHANGED <<db_user, vs_profile, top_n>>
    /\ UNCHANGED <<jobs_in, par_in_flight, par_order, par_slots>>
    /\ UNCHANGED <<selVars, optVars, pipeVars>>

\* Lines 71-80: sort, truncate, return.
SortAndReturn ==
    /\ rank_pc = "loop"
    /\ i = Len(jobs)
    /\ ranked_jobs' = truncate_top_n(sort_by_match_score(ranked_jobs), top_n)
    /\ rank_pc' = "done"
    /\ UNCHANGED <<db_user, vs_profile, jobs, top_n, i>>
    /\ UNCHANGED <<jobs_in, par_in_flight, par_order, par_slots>>
    /\ UNCHANGED <<selVars, optVars, pipeVars>>

RankNext == ScoreJob \/ SortAndReturn

(***************************************************************************)
(* The loop of rank_jobs run by a worker pool: the loop body of lines      *)
(* 52-69 is applied to the jobs in any order, several at a time.  A worker *)
(* appends its entry to ranked_jobs when it finishes (lines 61 and 69) and *)
(* the pool also keeps the entry at the position of its job (par_slots).   *)
(***************************************************************************)
ParStores ==
    {st \in StoreCatalog :
        /\ st[1] \in {BaseProfile, NotFoundProfile}
        /\ st[2] \in {[kind |-> "vec", vec |-> <<3, 4>>],
                      [kind |-> "raise", vec |-> <<0, 0>>]}}

ParTopNs == {[set |-> FALSE, n |-> 0], [set |-> TRUE, n |-> 2]}

ParInit ==
    /\ \E st \in ParStores : db_user = st[1] /\ vs_profile = st[2]
    /\ jobs \in DistinctLists(RankCatalog, MaxJobs)
    /\ top_n \in ParTopNs
    /\ i = 0
    /\ ranked_jobs = <<>>
    /\ rank_pc = "loop"
    /\ jobs_in = jobs
    /\ par_in_flight = {}
    /\ par_order = <<>>
    /\ par_slots = <<>>

\* Mutant of score_job_at: the ranker keeps the last score it computed and
\* hands it to the next job scored.
score_job_at_memoised(k) ==
    LET r == score_one_job(db_user, vs_profile, jobs[k])
    IN  IF ranked_jobs = <<>> THEN r
        ELSE [r EXCEPT !.entry.match_score =
                           ranked_jobs[Len(ranked_jobs)].match_score]

\* Lines 52-69 for the job at position k: the loop body reads its job, the
\* profile row and the vector store, and nothing a previous iteration wrote.
score_job_at(k) == score_one_job(db_user, vs_profile, jobs[k])

\* A worker takes a job that no worker has taken yet.
ParStart(k) ==
    /\ rank_pc = "loop"
    /\ k \in 1..Len(jobs)
    /\ k \notin par_in_flight
    /\ k \notin DOMAIN par_slots
    /\ par_in_flight' = par_in_flight \cup {k}
    /\ UNCHANGED <<db_user, vs_profile, jobs, top_n, i, ranked_jobs, rank_pc>>
    /\ UNCHANGED <<jobs_in, par_order, par_slots>>
    /\ UNCHANGED <<selVars, optVars, pipeVars>>

\* The worker finishes the loop body for its job.
ParFinish(k) ==
    /\ rank_pc = "loop"
    /\ k \in par_in_flight
    /\ LET r == score_job_at(k)
       IN  IF r.raised
             THEN /\ rank_pc' = "raised"
                  /\ UNCHANGED <<i, ranked_jobs, jobs, par_order, par_slots>>
             ELSE /\ ranked_jobs' = Append(ranked_jobs, r.entry)
                  /\ jobs' = [jobs EXCEPT ![k] = r.job_after]
                  /\ par_order' = Append(par_order, k)
                  /\ par_slots' = [j \in DOMAIN par_slots \cup {k} |->
                                     IF j = k THEN r.entry ELSE par_slots[j]]
                  /\ i' = i + 1
                  /\ UNCHANGED rank_pc
    /\ par_in_flight' = par_in_flight \ {k}
    /\ UNCHANGED <<db_user, vs_profile, top_n, jobs_in>>
    /\ UNCHANGED <<selVars, optVars, pipeVars>>

\* Lines 71-80 once every job has been scored.
ParSortAndReturn ==
    /\ rank_pc = "loop"
    /\ i = Len(jobs)
    /\ ranked_jobs' = truncate_top_n(sort_by_match_score(ranked_jobs), top_n)
    /\ rank_pc' = "done"
    /\ UNCHANGED <<db_user, vs_profile, jobs, top_n, i>>
    /\ UNCHANGED <<jobs_in, par_in_flight, par_order, par_slots>>
    /\ UNCHANGED <<selVars, optVars, pipeVars>>

ParNext ==
    \/ \E k \in 1..MaxJobs : ParStart(k)
    \/ \E k \in 1..MaxJobs : ParFinish(k)
    \/ ParSortAndReturn

(***************************************************************************)
(* Claims about rank_jobs and _calculate_match_score.                      *)
(***************************************************************************)
\* The position of the job with this id in the input list.
InputIndex(id) == CHOOSE k \in 1..Len(jobs) : jobs[k].id = id

\* C1: when rank_jobs returns, match_score is non-increasing along the result
\* and two entries of equal match_score keep the relative order their jobs
\* have in the input list.
C1_SortedStable ==
    rank_pc = "done" =>
        \A p, q \in 1..Len(ranked_jobs) :
            p < q =>
                /\ ranked_jobs[p].match_score >= ranked_jobs[q].match_score
                /\ ranked_jobs[p].match_score = ranked_jobs[q].match_score
                     => InputIndex(ranked_jobs[p].job.id)
                            < InputIndex(ranked_jobs[q].job.id)

\* A returned ranking of three jobs with a tie, a strict descent, and an
\* order that differs from the input order.
C1_Witness ==
    /\ rank_pc = "done"
    /\ Len(ranked_jobs) = 3
    /\ [k \in 1..3 |-> ranked_jobs[k].job] # jobs
    /\ \E p \in 1..2 : ranked_jobs[p].match_score = ranked_jobs[p + 1].match_score
    /\ \E p \in 1..2 : ranked_jobs[p].match_score > ranked_jobs[p + 1].match_score

\* C2: rank_jobs never raises; with top_n unset it returns exactly one entry
\* per input job, a job whose scoring raises having match_score 0 and an empty
\* breakdown, every other job the score it gets when scored alone; an empty
\* list gives an empty list.
C2_PartialFailureIsolation ==
    /\ rank_pc # "raised"
    /\ (rank_pc = "done" /\ ~top_n.set) =>
          /\ Len(ranked_jobs) = Len(jobs)
          /\ \A k \in 1..Len(jobs) :
                LET alone == calculate_match_score(db_user, vs_profile, jobs[k])
                    hits == {p \in 1..Len(ranked_jobs) :
                                ranked_jobs[p].job = jobs[k]}
                IN  /\ Cardinality(hits) = 1
                    /\ \A p \in hits :
                          IF alone.exc
                            THEN /\ ranked_jobs[p].match_score = 0
                                 /\ ranked_jobs[p].match_score_breakdown = "empty"
                            ELSE /\ ranked_jobs[p].match_score
                                        = alone.val.total_score
                                 /\ ranked_jobs[p].match_score_breakdown
                                        = alone.val.breakdown

\* A returned ranking, top_n unset, holding a job whose scoring raised and,
\* after it in the input, a job that scored above zero.
C2_Witness ==
    /\ rank_pc = "done"
    /\ ~top_n.set
    /\ \E k, m \in 1..Len(jobs) :
          /\ k < m
          /\ calculate_match_score(db_user, vs_profile, jobs[k]).exc
          /\ \E p \in 1..Len(ranked_jobs) :
                /\ ranked_jobs[p].job = jobs[m]
                /\ ranked_jobs[p].match_score > 0
                /\ ranked_jobs[p].match_score_breakdown = "scores"

\* C9: for a found profile and a job whose scoring completes, the total is
\* 30*semantic + 30*skill + 15*location + 15*jobType + 5*language
\* + 5*freshness + pastSuccessBoost, and pastSuccessBoost is 0 for every job,
\* also when the job embedding fails.
C9_WeightedSum ==
    /\ \A k \in 1..Len(jobs) : calculate_past_success_boost(jobs[k]) = 0
    /\ \A p \in 1..Len(ranked_jobs) :
          LET e == ranked_jobs[p]
          IN  e.match_score_breakdown = "scores" =>
                e.match_score =
                    30 * calculate_semantic_similarity(vs_profile, e.job).val
                    + 30 * calculate_skill_match(db_user, e.job).val
                    + 15 * calculate_location_match(db_user, e.job).val
                    + 15 * calculate_job_type_match(db_user, e.job).val
                    + 5 * calculate_language_match(db_user, e.job).val
                    + 5 * calculate_freshness_score(e.job).val
                    + 0

\* A scored job whose embedding computation fails and whose skill and
\* location scores differ.
C9_Witness ==
    /\ db_user.found
    /\ \E p \in 1..Len(ranked_jobs) :
          /\ ranked_jobs[p].match_score_breakdown = "scores"
          /\ ranked_jobs[p].job.embed.exc
          /\ ranked_jobs[p].match_score > 0
    /\ \E p \in 1..Len(ranked_jobs) :
          /\ ranked_jobs[p].match_score_breakdown = "scores"
          /\ calculate_skill_match(db_user, ranked_jobs[p].job).val
                # calculate_location_match(db_user, ranked_jobs[p].job).val

InUnit(r) == r.exc \/ (0 <= r.val /\ r.val <= One)

\* C10: each of the six component scores lies in [0,1] and every match_score
\* returned by rank_jobs lies in [0,100].
C10_ScoreRanges ==
    /\ db_user.found =>
          \A k \in 1..Len(jobs) :
              /\ InUnit(calculate_semantic_similarity(vs_profile, jobs[k]))
              /\ InUnit(calculate_skill_match(db_user, jobs[k]))
              /\ InUnit(calculate_location_match(db_user, jobs[k]))
              /\ InUnit(calculate_job_type_match(db_user, jobs[k]))
              /\ InUnit(calculate_language_match(db_user, jobs[k]))
              /\ InUnit(calculate_freshness_score(jobs[k]))
    /\ \A p \in 1..Len(ranked_jobs) :
          /\ 0 <= ranked_jobs[p].match_score
          /\ ranked_jobs[p].match_score <= 100 * One

\* A returned ranking holding a job with the maximal score 100.
C10_Witness ==
    /\ rank_pc = "done"
    /\ \E p \in 1..Len(ranked_jobs) : ranked_jobs[p].match_score = 100 * One

(***************************************************************************)
(* Claims about the component scores.                                      *)
(***************************************************************************)
\* The lower-cased distinct skills of a list.
SkillSet(list) == {LowerTok(list[k]) : k \in DOMAIN list}

\* C11: for a profile skill list and a job required-skill list (a missing key
\* is the empty list), skill match is 0.5 when no skill is required, otherwise
\* |profile /\ required| / |required| over the lower-cased sets: 1.0 when every
\* required skill is a profile skill, 0.0 when none is, and 2/3 for required
\* [Python, TensorFlow, Machine Learning] against profile [Python, TensorFlow].
C11_SkillMatch ==
    /\ db_user.found =>
          \A k \in 1..Len(jobs) :
              jobs[k].required_skills.kind # "none" =>
                  LET required == SkillSet(jobs[k].required_skills.v)
                      mine == SkillSet(db_user.skills)
                      r == calculate_skill_match(db_user, jobs[k])
                  IN  /\ ~r.exc
                      /\ required = {} => r.val = One \div 2
                      /\ required # {} =>
                            /\ r.val * Cardinality(required)
                                  = One * Cardinality(mine \cap required)
                            /\ required \subseteq mine => r.val = One
                            /\ mine \cap required = {} => r.val = 0
    /\ calculate_skill_match(
          [BaseProfile EXCEPT !.skills = <<"Python", "TensorFlow">>],
          [BaseJob EXCEPT !.required_skills =
                Val(<<"Python", "TensorFlow", "Machine Learning">>)])
        = Ok((2 * One) \div 3)

\* A returned ranking holding a scored job that requires three skills of which
\* the profile has two: its skill match is 2/3.
C11_Witness ==
    /\ rank_pc = "done"
    /\ db_user.found
    /\ \E p \in 1..Len(ranked_jobs) :
          LET job == ranked_jobs[p].job
          IN  /\ Cardinality(SkillSet(job.required_skills.v)) = 3
              /\ Cardinality(SkillSet(db_user.skills)
                                \cap SkillSet(job.required_skills.v)) = 2
              /\ ranked_jobs[p].match_score_breakdown = "scores"
              /\ calculate_skill_match(db_user, job).val = 400

\* Whether a job location names remote work: 'remote' in location.lower().
ContainsRemote(field) ==
    /\ field.kind = "val"
    /\ \E k \in 1..Len(field.v) :
          /\ k + 5 <= Len(field.v)
          /\ LowerStr(SubSeq(field.v, k, k + 5))
                = <<"r", "e", "m", "o", "t", "e">>

\* C12 as stated: a job whose location contains 'remote' has location match
\* 1.0 whatever the profile's preferred location, also when there is none.
C12_Original ==
    db_user.found =>
        \A k \in 1..Len(jobs) :
            ContainsRemote(jobs[k].location) =>
                calculate_location_match(db_user, jobs[k]) = Ok(One)

\* A location field that is absent, null or empty.
MissingText(field) == field.kind \in {"absent", "none"} \/ field.v = <<>>

\* The whitespace-delimited tokens of a lower-cased text.
Tokens(text) ==
    {SubSeq(text, a, b) : <<a, b>> \in
        {q \in (1..Len(text)) \X (1..Len(text)) :
            /\ q[1] <= q[2]
            /\ \A k \in q[1]..q[2] : text[k] # " "
            /\ q[1] > 1 => text[q[1] - 1] = " "
            /\ q[2] < Len(text) => text[q[2] + 1] = " "}}

\* C13 as stated: for a job whose location does not contain 'remote', location
\* match is 0.5 when either location is missing (absent, null or empty),
\* otherwise 1.0 on a substring match in either direction, otherwise 0.7 on a
\* shared token, otherwise 0.0; a missing location never makes scoring fail.
C13_Original ==
    db_user.found =>
        \A k \in 1..Len(jobs) :
            ~ContainsRemote(jobs[k].location) =>
                LET r == calculate_location_match(db_user, jobs[k])
                    pl == db_user.location_preference
                    jl == jobs[k].location
                IN  IF MissingText(pl) \/ MissingText(jl)
                      THEN r = Ok(One \div 2)
                    ELSE IF IsSubstr(LowerStr(pl.v), LowerStr(jl.v))
                            \/ IsSubstr(LowerStr(jl.v), LowerStr(pl.v))
                      THEN r = Ok(One)
                    ELSE IF Tokens(LowerStr(pl.v)) \cap Tokens(LowerStr(jl.v)) # {}
                      THEN r = Ok((7 * One) \div 10)
                    ELSE r = Ok(0)

\* Whether the semantic component falls back: no stored profile embedding,
\* a failing embedding lookup, or a failing job embedding computation.
SemanticFallback(vs, job) == vs.kind \in {"missing", "raise"} \/ job.embed.exc

\* C14: in the fallback cases semantic similarity is 0 and raises nothing, and
\* a job whose other five components can be computed gets their weighted sum
\* as its total (it is not forced to 0).
C14_SemanticFallback ==
    db_user.found =>
        /\ \A k \in 1..Len(jobs) :
              SemanticFallback(vs_profile, jobs[k]) =>
                  calculate_semantic_similarity(vs_profile, jobs[k]) = Ok(0)
        /\ \A p \in 1..Len(ranked_jobs) :
              LET job == ranked_jobs[p].job
                  skill == calculate_skill_match(db_user, job)
                  loc == calculate_location_match(db_user, job)
                  jtype == calculate_job_type_match(db_user, job)
                  lang == calculate_language_match(db_user, job)
                  fresh == calculate_freshness_score(job)
              IN  (/\ SemanticFallback(vs_profile, job)
                   /\ ~skill.exc /\ ~loc.exc /\ ~jtype.exc
                   /\ ~lang.exc /\ ~fresh.exc) =>
                      /\ ranked_jobs[p].match_score_breakdown = "scores"
                      /\ ranked_jobs[p].match_score =
                            30 * skill.val + 15 * loc.val + 15 * jtype.val
                            + 5 * lang.val + 5 * fresh.val

\* A returned ranking for a profile whose embedding lookup fails, holding a job
\* with a positive total.
C14_Witness ==
    /\ rank_pc = "done"
    /\ db_user.found
    /\ vs_profile.kind = "raise"
    /\ \E p \in 1..Len(ranked_jobs) :
          /\ ranked_jobs[p].match_score_breakdown = "scores"
          /\ ranked_jobs[p].match_score > 0

\* The ranking rank_jobs returns when top_n is unset.
FullRanking ==
    sort_by_match_score(
        [k \in 1..Len(jobs) |-> score_one_job(db_user, vs_profile, jobs[k]).entry])

\* C18 as stated: for an integer top_n >= 0 the result is the first top_n
\* entries of the ranking returned when top_n is unset (all of it when it is
\* shorter), so its length is min(top_n, number of jobs).
C18_Original ==
    (rank_pc = "done" /\ top_n.set /\ top_n.n >= 0) =>
        /\ Len(ranked_jobs) = Min(top_n.n, Len(jobs))
        /\ ranked_jobs = SubSeq(FullRanking, 1, Min(top_n.n, Len(jobs)))

\* C19 as stated: job type match is 0.5 when the profile declares no preferred
\* job type; otherwise 1.0 if the job's type matches (case-insensitive
\* substring) a preferred type and 0.0 if it matches none, a job whose type is
\* empty or absent matching no preferred type.
C19_Original ==
    db_user.found =>
        \A k \in 1..Len(jobs) :
            LET r == calculate_job_type_match(db_user, jobs[k])
                prefs == db_user.preferred_job_types
                jt == jobs[k].job_type
            IN  IF prefs.kind \in {"absent", "none"} \/ prefs.v = <<>>
                  THEN r = Ok(One \div 2)
                ELSE IF jt.kind \in {"absent", "none"} \/ jt.v = <<>>
                  THEN r = Ok(0)
                ELSE IF \E m \in 1..Len(prefs.v) :
                          \/ IsSubstr(LowerStr(prefs.v[m]), LowerStr(jt.v))
                          \/ IsSubstr(LowerStr(jt.v), LowerStr(prefs.v[m]))
                  THEN r = Ok(One)
                ELSE r = Ok(0)

\* The step function of the posting age in whole days.
FreshnessOfAge(age) ==
    IF age <= 1 THEN One
    ELSE IF age <= 3 THEN (9 * One) \div 10
    ELSE IF age <= 7 THEN (8 * One) \div 10
    ELSE IF age <= 14 THEN (6 * One) \div 10
    ELSE IF age <= 30 THEN (4 * One) \div 10
    ELSE (2 * One) \div 10

\* C20 as stated: for a job with a known posting date (a date-time value)
\* freshness is the step function of its age in whole days; it is 0.5 when the
\* posting date is absent or not a date-time value.
C20_Original ==
    \A k \in 1..Len(jobs) :
        LET pd == jobs[k].posting_date
            r == calculate_freshness_score(jobs[k])
        IN  IF pd.kind \in {"naive", "aware"}
              THEN r = Ok(FreshnessOfAge(pd.age))
              ELSE r = Ok(One \div 2)

(***************************************************************************)
(* VectorStore.find_relevant_projects and ProjectSelector.                 *)
(***************************************************************************)
\* Mutant of distance_to_relevance: relevance = 1 - distance.
distance_to_relevance_linear(distance) == One - distance * One

\* relevance = 1 / (1 + distance)
distance_to_relevance(distance) == One \div (1 + distance)

\* collection.query(n_results=n, where={"user_id": user_id}): the n nearest
\* of the user's indexed projects.
query_collection(index, n_results) == Take(index, n_results)

\* find_relevant_projects: [exc, val].  The embedding lookup has its own
\* try/except returning []; query_collection is outside it.
find_relevant_projects(vsjob, query_raises, index, n_results) ==
    IF vsjob = "raise" THEN Ok(<<>>)
    ELSE IF vsjob = "missing" THEN Ok(<<>>)
    ELSE IF query_raises THEN Raise
    ELSE LET res == query_collection(index, n_results)
         IN  Ok([k \in 1..Len(res) |->
                    [project_id |-> res[k].project_id,
                     relevance |-> distance_to_relevance(res[k].distance)]])

\* Line 45: job.get('id', f"temp_{hash(job['job_title'] + job['company_name'])}")
\* evaluates the default eagerly: KeyError on a missing key, TypeError when
\* either value is None.
job_id_raises(job) ==
    job.job_title.kind # "val" \/ job.company_name.kind # "val"

\* _calculate_project_relevance: [exc, val |-> breakdown].
calculate_project_relevance(project, job, semantic_score) ==
    LET rs == Get(job.required_skills, <<>>)
        jt == Get(job.job_title, <<>>)
        jd == Get(job.description, <<>>)
    IN  IF rs.kind = "none" \/ jt.kind = "none" \/ jd.kind = "none" THEN Raise
        ELSE
          LET job_skills == LowerSet(rs.v) \cup LowerSet(rs.v)
              project_techs == LowerSet(project.technologies)
              matching_techs == job_skills \cap project_techs
              tech_overlap_ratio ==
                  IF job_skills # {}
                    THEN (Cardinality(matching_techs) * One)
                            \div Cardinality(job_skills)
                    ELSE 0
              total_score == (semantic_score * 6 + tech_overlap_ratio * 4) \div 10
          IN  Ok([total_score |-> total_score,
                  semantic_score |-> semantic_score,
                  tech_overlap |-> tech_overlap_ratio,
                  matching_techs |-> matching_techs])

\* Mutant of score_candidate: a candidate without a store row raises.
score_candidate_strict(dbstate, project, job, proj_data) ==
    LET none == [project_id |-> proj_data.project_id, relevance_score |-> 0,
                 semantic_similarity |-> 0, tech_overlap |-> 0,
                 matching_techs |-> {}]
        rb == calculate_project_relevance(project, job, proj_data.relevance)
    IN  IF dbstate # "ok" \/ rb.exc THEN [outcome |-> "raise", entry |-> none]
        ELSE [outcome |-> "scored",
              entry |-> [project_id |-> proj_data.project_id,
                         relevance_score |-> rb.val.total_score,
                         semantic_similarity |-> rb.val.semantic_score,
                         tech_overlap |-> rb.val.tech_overlap,
                         matching_techs |-> rb.val.matching_techs]]

\* Lines 61-93: the loop body for one candidate.  outcome is "raise" (the
\* store read or the relevance computation raises), "skip" (no such row) or
\* "scored".
score_candidate(dbstate, project, job, proj_data) ==
    LET none == [project_id |-> proj_data.project_id, relevance_score |-> 0,
                 semantic_similarity |-> 0, tech_overlap |-> 0,
                 matching_techs |-> {}]
    IN  IF dbstate = "raise" THEN [outcome |-> "raise", entry |-> none]
        ELSE IF dbstate = "missing" THEN [outcome |-> "skip", entry |-> none]
        ELSE
          LET rb == calculate_project_relevance(project, job, proj_data.relevance)
          IN  IF rb.exc THEN [outcome |-> "raise", entry |-> none]
              ELSE [outcome |-> "scored",
                    entry |-> [project_id |-> proj_data.project_id,
                               relevance_score |-> rb.val.total_score,
                               semantic_similarity |-> rb.val.semantic_score,
                               tech_overlap |-> rb.val.tech_overlap,
                               matching_techs |-> rb.val.matching_techs]]

\* Mutant of handle_selection_error: the handler returns what was scored.
handle_selection_error_partial(scored) == scored

\* Lines 109-113: the handler of the whole operation returns [].
handle_selection_error(scored) == <<>>

\* scored_projects.sort(key=relevance_score, reverse=True), stable.
InsertByRelevance(sorted, e) ==
    LET before == {k \in 1..Len(sorted) :
                      sorted[k].relevance_score >= e.relevance_score}
        n == Cardinality(before)
    IN  SubSeq(sorted, 1, n) \o <<e>> \o SubSeq(sorted, n + 1, Len(sorted))

RECURSIVE SortByRelevanceFrom(_, _, _)
SortByRelevanceFrom(list, k, acc) ==
    IF k > Len(list) THEN acc
    ELSE SortByRelevanceFrom(list, k + 1, InsertByRelevance(acc, list[k]))

\* Mutant of select_top: sorted but not cut to max_projects.
select_top_uncut(scored, maxp) == SortByRelevanceFrom(scored, 1, <<>>)

\* Lines 95-99: sort, then scored_projects[:max_projects].
select_top(scored, maxp) == PySlice(SortByRelevanceFrom(scored, 1, <<>>), maxp)

(***************************************************************************)
(* Catalogues of inputs of the selector.                                   *)
(***************************************************************************)
\* The user's projects: technologies, and the distance of the project
\* embedding to the embedding of the job.
ProjectIds == 1..4

ProjectPool ==
    [id \in ProjectIds |->
        CASE id = 1 -> [technologies |-> <<"Python", "TensorFlow", "Docker">>,
                        distance |-> 0]
          [] id = 2 -> [technologies |-> <<"Java">>, distance |-> 1]
          [] id = 3 -> [technologies |-> <<"python", "Machine Learning">>,
                        distance |-> 1]
          [] OTHER -> [technologies |-> <<>>, distance |-> 3]]

RECURSIVE Perms(_)
Perms(S) ==
    IF S = {} THEN {<<>>}
    ELSE UNION {{<<x>> \o t : t \in Perms(S \ {x})} : x \in S}

\* What the index can hold for the user: any subset of the projects, nearest
\* first (projects at the same distance in either order).
IndexCatalog ==
    UNION {{[k \in 1..Len(l) |->
                [project_id |-> l[k], distance |-> ProjectPool[l[k]].distance]] :
            l \in {m \in Perms(S) :
                    \A k \in 1..(Len(m) - 1) :
                        ProjectPool[m[k]].distance <= ProjectPool[m[k + 1]].distance}} :
           S \in SUBSET ProjectIds}

\* Store states: any rows missing, at most one read raising.
DbCatalog ==
    {d \in [ProjectIds -> {"ok", "missing", "raise"}] :
        Cardinality({id \in ProjectIds : d[id] = "raise"}) <= 1}

BaseSelJob ==
    [job_title |-> Val("ML Engineer"),
     company_name |-> Val("AI Corp"),
     description |-> Val("Looking for ML engineer"),
     required_skills |-> Val(<<"Python", "TensorFlow", "Machine Learning">>)]

SelJobCatalog ==
    {[BaseSelJob EXCEPT !.required_skills = x] :
        x \in {Absent, NoneV, Val(<<>>), Val(<<"Java">>),
               Val(<<"Python", "TensorFlow", "Machine Learning">>)}}
    \cup {[BaseSelJob EXCEPT !.job_title = x] : x \in {Absent, NoneV}}
    \cup {[BaseSelJob EXCEPT !.company_name = x] : x \in {Absent, NoneV}}
    \cup {[BaseSelJob EXCEPT !.description = x] : x \in {Absent, NoneV}}

(***************************************************************************)
(* The state machine of select_relevant_projects.                          *)
(***************************************************************************)
SelIdle ==
    /\ sel_job = BaseSelJob
    /\ max_projects = 0
    /\ vs_job = "missing"
    /\ vs_query_raises = FALSE
    /\ vs_index = <<>>
    /\ db_projects = [id \in ProjectIds |-> "ok"]
    /\ relevant_projects = <<>>
    /\ sel_k = 0
    /\ scored_projects = <<>>
    /\ selected = <<>>
    /\ sel_exc = FALSE
    /\ sel_pc = "idle"

SelInit ==
    /\ sel_job \in SelJobCatalog
    /\ max_projects \in 0..MaxProjects
    /\ vs_index \in IndexCatalog
    /\ \/ /\ vs_job = "found"
          /\ vs_query_raises = FALSE
          /\ db_projects \in DbCatalog
       \/ /\ \E f \in {<<"raise", FALSE>>, <<"missing", FALSE>>, <<"found", TRUE>>} :
                vs_job = f[1] /\ vs_query_raises = f[2]
          /\ db_projects = [id \in ProjectIds |-> "ok"]
    /\ relevant_projects = <<>>
    /\ sel_k = 0
    /\ scored_projects = <<>>
    /\ selected = <<>>
    /\ sel_exc = FALSE
    /\ sel_pc = "start"

\* The handler of lines 109-113 ends the call.
SelFail ==
    /\ selected' = handle_selection_error(scored_projects)
    /\ sel_exc' = TRUE
    /\ sel_pc' = "done"

\* Lines 43-56: the job id, the vector query, the early return.
SelFind ==
    /\ sel_pc = "start"
    /\ IF job_id_raises(sel_job)
         THEN SelFail /\ UNCHANGED relevant_projects
         ELSE LET r == find_relevant_projects(vs_job, vs_query_raises, vs_index,
                                              max_projects * 2)
              IN  IF r.exc THEN SelFail /\ UNCHANGED relevant_projects
                  ELSE IF r.val = <<>>
                    THEN /\ selected' = <<>>
                         /\ sel_exc' = (vs_job = "raise")
                         /\ sel_pc' = "done"
                         /\ UNCHANGED relevant_projects
                    ELSE /\ relevant_projects' = r.val
                         /\ sel_pc' = "loop"
                         /\ UNCHANGED <<selected, sel_exc>>
    /\ UNCHANGED <<sel_job, max_projects, vs_job, vs_query_raises, vs_index,
                   db_projects, sel_k, scored_projects>>
    /\ UNCHANGED <<rankVars, optVars, pipeVars>>

\* One iteration of `for proj_data in relevant_projects`.
SelScoreCandidate ==
    /\ sel_pc = "loop"
    /\ sel_k < Len(relevant_projects)
    /\ LET proj_data == relevant_projects[sel_k + 1]
           r == score_candidate(db_projects[proj_data.project_id],
                                ProjectPool[proj_data.project_id],
                                sel_job, proj_data)
       IN  IF r.outcome = "raise"
             THEN SelFail /\ UNCHANGED <<sel_k, scored_projects>>
             ELSE /\ sel_k' = sel_k + 1
                  /\ scored_projects' =
                        IF r.outcome = "scored"
                          THEN Append(scored_projects, r.entry)
                          ELSE scored_projects
                  /\ UNCHANGED <<selected, sel_exc, sel_pc>>
    /\ UNCHANGED <<sel_job, max_projects, vs_job, vs_query_raises, vs_index,
                   db_projects, relevant_projects>>
    /\ UNCHANGED <<rankVars, optVars, pipeVars>>

\* Lines 95-107: sort, cut, return.
SelSelect ==
    /\ sel_pc = "loop"
    /\ sel_k = Len(relevant_projects)
    /\ selected' = select_top(scored_projects, max_projects)
    /\ sel_pc' = "done"
    /\ UNCHANGED <<sel_job, max_projects, vs_job, vs_query_raises, vs_index,
                   db_projects, relevant_projects, sel_k, scored_projects,
                   sel_exc>>
    /\ UNCHANGED <<rankVars, optVars, pipeVars>>

SelNext == SelFind \/ SelScoreCandidate \/ SelSelect

(***************************************************************************)
(* PageOptimizer.  A text the code cuts is the sequence of its words, a    *)
(* word being [len, dots]: its length in characters and whether its last   *)
(* three characters are "...".  A text the code only counts               *)
(* (len(x.split())) is its number of words.                                *)
(***************************************************************************)
WORD_LIMITS ==
    [p \in {1, 2} |->
        IF p = 1
          THEN [contact |-> 30, summary |-> 50, skills |-> 40,
                experience |-> 150, projects |-> 100, education |-> 30,
                languages |-> 15, total |-> 415]
          ELSE [contact |-> 40, summary |-> 80, skills |-> 60,
                experience |-> 250, projects |-> 200, education |-> 60,
                languages |-> 25, total |-> 715]]

\* Mutant of clamp_pages: a page count above 2 is clamped to 2.
clamp_pages_nearest(pages) == IF pages \in {1, 2} THEN pages ELSE IF pages > 2 THEN 2 ELSE 1

\* Lines 64-65: `if target_pages not in [1, 2]: target_pages = 1`.
clamp_pages(pages) == IF pages \in {1, 2} THEN pages ELSE 1

\* text + '...'
AppendDots(text) ==
    IF text = <<>> THEN <<[len |-> 3, dots |-> TRUE]>>
    ELSE [text EXCEPT ![Len(text)] = [len |-> @.len + 3, dots |-> TRUE]]

EndsWithDots(text) == text # <<>> /\ text[Len(text)].dots

\* text[:n] on characters, the words being separated by one blank.  A word
\* cut short no longer ends with "...".
RECURSIVE SliceCharsFrom(_, _, _)
SliceCharsFrom(text, k, room) ==
    IF k > Len(text) \/ room <= 0 THEN <<>>
    ELSE IF text[k].len <= room
      THEN <<text[k]>> \o SliceCharsFrom(text, k + 1, room - text[k].len - 1)
      ELSE <<[len |-> room, dots |-> FALSE]>>

SliceChars(text, n) == SliceCharsFrom(text, 1, n)

\* The five keys _optimize_contact always returns.
optimize_contact(contact, word_limit) ==
    {"name", "email", "phone", "location", "linkedin"}

optimize_summary(summary, word_limit) ==
    IF summary = <<>> THEN <<>>
    ELSE IF Len(summary) <= word_limit THEN summary
    ELSE AppendDots(Take(summary, word_limit))

max_skills(pages) == IF pages = 1 THEN 10 ELSE 15

\* Mutant of optimize_skills: the last entries (skills[-max_skills:]).
optimize_skills_last(skills, word_limit, pages) ==
    IF Len(skills) <= max_skills(pages) THEN skills
    ELSE SubSeq(skills, Len(skills) - max_skills(pages) + 1, Len(skills))

optimize_skills(skills, word_limit, pages) ==
    IF skills = <<>> THEN <<>> ELSE Take(skills, max_skills(pages))

max_roles(pages) == IF pages = 1 THEN 3 ELSE 5

max_bullets(pages) == IF pages = 1 THEN 3 ELSE 5

\* Lines 214-226: one role; the description is only looked at when the role
\* has no 'achievements' key.
optimize_role(exp, pages) ==
    IF exp.has_ach
      THEN [exp EXCEPT !.achievements = Take(@, max_bullets(pages))]
    ELSE IF exp.has_desc /\ Len(exp.description) > 50
      THEN [exp EXCEPT !.description = AppendDots(Take(@, 50))]
    ELSE exp

optimize_experience(experience, word_limit, pages) ==
    IF experience = <<>> THEN <<>>
    ELSE LET limited_exp == Take(experience, max_roles(pages))
         IN  [k \in 1..Len(limited_exp) |-> optimize_role(limited_exp[k], pages)]

\* Mutant of max_projects_shown: one project too many on one page.
max_projects_shown_three(pages) == IF pages = 1 THEN 3 ELSE 4

max_projects_shown(pages) == IF pages = 1 THEN 2 ELSE 4

optimize_project(project, pages) ==
    [title |-> project.title,
     title_words |-> project.title_words,
     technologies |-> Take(project.technologies, 5),
     highlights |-> Take(project.highlights, IF pages = 1 THEN 2 ELSE 3),
     description |-> IF pages = 1 THEN SliceChars(project.description, 100)
                     ELSE SliceChars(project.description, 200)]

optimize_projects(projects, word_limit, pages) ==
    IF projects = <<>> THEN <<>>
    ELSE LET kept == Take(projects, max_projects_shown(pages))
         IN  [k \in 1..Len(kept) |-> optimize_project(kept[k], pages)]

\* Mutant of max_degrees: the same cap on both page counts.
max_degrees_flat(pages) == IF pages = 1 THEN 2 ELSE 2

max_degrees(pages) == IF pages = 1 THEN 2 ELSE 3

optimize_degree(edu, pages) ==
    [degree |-> edu.degree,
     has_coursework |-> pages = 2 /\ edu.has_coursework,
     coursework |-> IF pages = 2 /\ edu.has_coursework
                      THEN Take(edu.coursework, 3) ELSE <<>>]

optimize_education(education, word_limit, pages) ==
    IF education = <<>> THEN <<>>
    ELSE LET kept == Take(education, max_degrees(pages))
         IN  [k \in 1..Len(kept) |-> optimize_degree(kept[k], pages)]

optimize_languages(languages, word_limit) ==
    IF languages = <<>> THEN <<>> ELSE Take(languages, 4)

RECURSIVE SumSeq(_)
SumSeq(ns) == IF ns = <<>> THEN 0 ELSE ns[1] + SumSeq(Tail(ns))

role_words(exp) ==
    exp.title_words + exp.company_words
    + (IF exp.has_desc THEN Len(exp.description) ELSE 0)
    + (IF exp.has_ach THEN SumSeq(exp.achievements) ELSE 0)

project_words(proj) ==
    proj.title_words + Len(proj.description) + Len(proj.technologies) * 2
    + SumSeq(proj.highlights)

count_total_words(c) ==
    (IF c.contact # {} THEN 20 ELSE 0)
    + (IF c.summary # <<>> THEN Len(c.summary) ELSE 0)
    + (IF c.skills # <<>> THEN Len(c.skills) * 2 ELSE 0)
    + SumSeq([k \in 1..Len(c.experience) |-> role_words(c.experience[k])])
    + SumSeq([k \in 1..Len(c.projects) |-> project_words(c.projects[k])])
    + Len(c.education) * 15
    + Len(c.languages) * 2

\* Lines 73-114: the per-section pass.
first_pass(c, pages, incl) ==
    LET limits == WORD_LIMITS[pages]
    IN  [contact |-> optimize_contact(c.contact, limits.contact),
         summary |-> optimize_summary(c.summary, limits.summary),
         skills |-> optimize_skills(c.skills, limits.skills, pages),
         experience |-> optimize_experience(c.experience, limits.experience, pages),
         projects |-> IF incl
                        THEN optimize_projects(c.projects, limits.projects, pages)
                        ELSE <<>>,
         education |-> optimize_education(c.education, limits.education, pages),
         languages |-> optimize_languages(c.languages, limits.languages)]

\* Mutant of over_limit: an estimate equal to the ceiling counts as over it.
over_limit_inclusive(total, pages) == total >= WORD_LIMITS[pages].total

\* Mutant of over_limit: the threshold is 100 words too high.
over_limit_lenient(total, pages) == total > WORD_LIMITS[pages].total + 100

\* Line 121: `if total_words > limits['total']`.
over_limit(total, pages) == total > WORD_LIMITS[pages].total

\* Mutant of aggressive_optimize: projects are cut to one on both page counts.
aggressive_optimize_all_pages(c, pages) ==
    [c EXCEPT
        !.experience = IF Len(@) > 2 THEN Take(@, 2) ELSE @,
        !.projects = IF Len(@) > 1 THEN Take(@, 1) ELSE @,
        !.summary = IF @ # <<>> THEN Take(@, 30) ELSE @,
        !.skills = IF Len(@) > 8 THEN Take(@, 8) ELSE @]

\* Lines 369-402: _aggressive_optimize.
aggressive_optimize(c, pages) ==
    [c EXCEPT
        !.experience = IF Len(@) > 2 THEN Take(@, 2) ELSE @,
        !.projects = IF pages = 1 /\ Len(@) > 1 THEN Take(@, 1) ELSE @,
        !.summary = IF @ # <<>> THEN Take(@, 30) ELSE @,
        !.skills = IF Len(@) > 8 THEN Take(@, 8) ELSE @]

(***************************************************************************)
(* Catalogues of inputs of the optimizer.                                  *)
(***************************************************************************)
\* A text of n words of four characters.
Words(n) == [k \in 1..n |-> [len |-> 4, dots |-> FALSE]]

Summaries ==
    {Words(n) : n \in {0, 30, 31, 50, 51, 80, 81, 500}}
    \cup {AppendDots(Words(40))}

SkillsOf(n) == [k \in 1..n |-> k]

Role(id, bullets, desc) ==
    [title |-> id, title_words |-> 2, company_words |-> 2,
     has_ach |-> bullets # <<>>, achievements |-> bullets,
     has_desc |-> desc # <<>>, description |-> desc]

Bullets(n, w) == [k \in 1..n |-> w]

\* Roles with an empty 'achievements' list and no description count as roles
\* without either key.
Experiences ==
    {<<>>,
     [k \in 1..2 |-> Role(k, Bullets(2, 3), <<>>)],
     [k \in 1..3 |-> Role(k, Bullets(3, 10), <<>>)],
     [k \in 1..6 |-> Role(k, Bullets(6, 3), <<>>)],
     [k \in 1..3 |-> Role(k, Bullets(6, 100), <<>>)],
     [k \in 1..5 |-> Role(k, IF k = 4 THEN Bullets(5, 120) ELSE Bullets(2, 3), <<>>)],
     <<Role(1, <<>>, Words(50)), Role(2, <<>>, Words(51)), Role(3, <<>>, Words(120))>>,
     <<Role(1, Bullets(6, 3), Words(60)), Role(2, Bullets(2, 3), <<>>)>>}

Project(id, ntech, highlights, desc) ==
    [title |-> id, title_words |-> 2, technologies |-> SkillsOf(ntech),
     highlights |-> highlights, description |-> desc]

ProjectLists ==
    {<<>>,
     <<Project(1, 3, Bullets(2, 4), Words(10))>>,
     [k \in 1..2 |-> Project(k, 3, Bullets(2, 4), Words(10))],
     [k \in 1..3 |-> Project(k, 5, Bullets(3, 4), Words(20))],
     [k \in 1..5 |-> Project(k, 6, Bullets(4, 4), Words(60))],
     <<Project(1, 6, Bullets(4, 30), <<[len |-> 150, dots |-> FALSE]>>),
       Project(2, 1, <<>>, <<>>)>>}

Degree(id, ncourses) ==
    [degree |-> id, has_coursework |-> ncourses > 0,
     coursework |-> SkillsOf(ncourses)]

Educations ==
    {<<>>, [k \in 1..2 |-> Degree(k, 0)], [k \in 1..3 |-> Degree(k, 0)],
     [k \in 1..4 |-> Degree(k, 4)]}

LanguageLists == {SkillsOf(n) : n \in {0, 4, 5}}

Draft(summary, skills, experience, projects, education, languages) ==
    [contact |-> {"name", "email"}, summary |-> summary, skills |-> skills,
     experience |-> experience, projects |-> projects,
     education |-> education, languages |-> languages]

\* A draft with more entries in every section than either page count keeps.
FullDraft ==
    Draft(Words(81), SkillsOf(16), [k \in 1..6 |-> Role(k, Bullets(6, 3), <<>>)],
          [k \in 1..5 |-> Project(k, 6, Bullets(4, 4), Words(60))],
          [k \in 1..4 |-> Degree(k, 4)], SkillsOf(5))

\* A draft whose one-page estimate is 322 + w words: 415, the ceiling, for
\* w = 93 and one word more for w = 94.
BoundaryDraft(w) ==
    Draft(Words(50), SkillsOf(10), <<Role(1, <<95, 95, w>>, <<>>)>>, <<>>,
          [k \in 1..2 |-> Degree(k, 0)], SkillsOf(4))

\* Every combination of summary, skills, experience and projects with two
\* degrees and four languages, and every education and language list with
\* one fixed draft.
ContentCatalog ==
    {Draft(su, SkillsOf(n), ex, pr, [k \in 1..2 |-> Degree(k, 0)], SkillsOf(4)) :
        su \in Summaries, n \in {0, 8, 9, 10, 11, 15, 16},
        ex \in Experiences, pr \in ProjectLists}
    \cup {Draft(Words(51), SkillsOf(11), [k \in 1..3 |-> Role(k, Bullets(3, 10), <<>>)],
                <<>>, ed, la) :
            ed \in Educations, la \in LanguageLists}
    \cup {FullDraft, BoundaryDraft(93), BoundaryDraft(94)}

PageArgs == {-1, 0, 1, 2, 3}

EmptyContent ==
    [contact |-> {}, summary |-> <<>>, skills |-> <<>>, experience |-> <<>>,
     projects |-> <<>>, education |-> <<>>, languages |-> <<>>]

(***************************************************************************)
(* The state machine of optimize_content.                                  *)
(***************************************************************************)
OptIdle ==
    /\ content = EmptyContent
    /\ target_pages = 1
    /\ include_projects = TRUE
    /\ optimized = EmptyContent
    /\ total_words = 0
    /\ aggressive = FALSE
    /\ opt_pc = "idle"

OptInit ==
    /\ content \in ContentCatalog
    /\ target_pages \in PageArgs
    /\ include_projects \in BOOLEAN
    /\ optimized = EmptyContent
    /\ total_words = 0
    /\ aggressive = FALSE
    /\ opt_pc = "start"

\* Lines 64-118: clamp the page count, limit each section, count.
OptFirstPass ==
    /\ opt_pc = "start"
    /\ optimized' = first_pass(content, clamp_pages(target_pages), include_projects)
    /\ total_words' = count_total_words(optimized')
    /\ opt_pc' = "counted"
    /\ UNCHANGED <<content, target_pages, include_projects, aggressive>>
    /\ UNCHANGED <<rankVars, selVars, pipeVars>>

\* Lines 121-127, over the limit: the aggressive pass, then return.
OptAggressive ==
    /\ opt_pc = "counted"
    /\ over_limit(total_words, clamp_pages(target_pages))
    /\ optimized' = aggressive_optimize(optimized, clamp_pages(target_pages))
    /\ total_words' = count_total_words(optimized')
    /\ aggressive' = TRUE
    /\ opt_pc' = "done"
    /\ UNCHANGED <<content, target_pages, include_projects>>
    /\ UNCHANGED <<rankVars, selVars, pipeVars>>

\* Lines 121-127, within the limit: return.
OptReturn ==
    /\ opt_pc = "counted"
    /\ ~over_limit(total_words, clamp_pages(target_pages))
    /\ opt_pc' = "done"
    /\ UNCHANGED <<content, target_pages, include_projects, optimized,
                   total_words, aggressive>>
    /\ UNCHANGED <<rankVars, selVars, pipeVars>>

OptNext == OptFirstPass \/ OptAggressive \/ OptReturn

(***************************************************************************)
(* Retriever and RAGPipeline.  A context string is "" or a token standing  *)
(* for the non-empty formatted text.                                       *)
(***************************************************************************)
\* Mutant of get_profile_context: a missing record raises.
get_profile_context_strict(store) ==
    IF store = "raise" THEN Raise
    ELSE IF store = "absent" THEN Raise
    ELSE Ok("profile_text")

\* Retriever.get_profile_context: no try/except, so a failing query raises;
\* "" when the user or the profile row is missing, the formatted text (never
\* empty: it starts with "User Profile:") otherwise.
get_profile_context(store) ==
    IF store = "raise" THEN Raise
    ELSE IF store = "absent" THEN Ok("")
    ELSE Ok("profile_text")

\* Retriever.get_job_context: as above for the jobs table.
get_job_context(store) ==
    IF store = "raise" THEN Raise
    ELSE IF store = "absent" THEN Ok("")
    ELSE Ok("job_text")

\* Lines 46-52: the default preferences replace None.
NoPreferences ==
    [given |-> FALSE, include_projects |-> Absent, max_projects_per_cv |-> Absent]

default_preferences(prefs) ==
    IF prefs.given THEN prefs
    ELSE [given |-> TRUE, include_projects |-> Val(TRUE),
          max_projects_per_cv |-> Val(3)]

\* Whether the operation selects projects: always for a cover letter,
\* cv_preferences.get('include_projects', False) for a CV.
selection_enabled(kind, prefs) ==
    IF kind = "cover_letter" THEN TRUE
    ELSE Get(default_preferences(prefs).include_projects, FALSE).v

\* The max_projects argument: 2 for a cover letter,
\* cv_preferences.get('max_projects_per_cv', 3) for a CV.
selection_size(kind, prefs) ==
    IF kind = "cover_letter" THEN 2
    ELSE Get(default_preferences(prefs).max_projects_per_cv, 3).v

\* _format_projects_context: "" for an empty list; proj['description'][:200]
\* raises TypeError when the description is None.
format_projects_context(projects, desc_none) ==
    IF projects = <<>> THEN Ok("")
    ELSE IF \E k \in 1..Len(projects) : projects[k].project_id \in desc_none
      THEN Raise
    ELSE Ok("projects_text")

NoContext ==
    [profile |-> "", job |-> "", projects |-> "", selected_projects_data |-> <<>>]

(***************************************************************************)
(* Catalogues of inputs of the pipeline.                                   *)
(***************************************************************************)
PreferencesCatalog ==
    {NoPreferences}
    \cup {[given |-> TRUE, include_projects |-> ip, max_projects_per_cv |-> mp] :
            ip \in {Absent, Val(TRUE), Val(FALSE)},
            mp \in {Absent} \cup {Val(n) : n \in 1..MaxProjects}}

PipeJobCatalog == {BaseSelJob, [BaseSelJob EXCEPT !.company_name = Absent]}

\* The vector index: no project, the nearest one, the three nearest.
PipeIndexCatalog ==
    {<<>>,
     <<[project_id |-> 1, distance |-> ProjectPool[1].distance]>>,
     <<[project_id |-> 1, distance |-> ProjectPool[1].distance],
       [project_id |-> 3, distance |-> ProjectPool[3].distance],
       [project_id |-> 2, distance |-> ProjectPool[2].distance]>>}

PipeDbCatalog ==
    {[id \in ProjectIds |-> "ok"],
     [id \in ProjectIds |-> IF id = 1 THEN "missing" ELSE "ok"],
     [id \in ProjectIds |-> IF id = 3 THEN "raise" ELSE "ok"]}

(***************************************************************************)
(* The state machine of build_context_for_cv and                           *)
(* build_context_for_cover_letter.  The project selection step runs the    *)
(* state machine of select_relevant_projects.                              *)
(***************************************************************************)
PipeIdle ==
    /\ pipe_kind = "cv"
    /\ cv_preferences = NoPreferences
    /\ store_profile = "absent"
    /\ store_job = "absent"
    /\ proj_desc_none = {}
    /\ profile_context = ""
    /\ job_context = ""
    /\ pipe_trace = <<>>
    /\ context = NoContext
    /\ pipe_cause = "none"
    /\ pipe_pc = "idle"

PipeInit ==
    /\ \/ pipe_kind = "cv" /\ cv_preferences \in PreferencesCatalog
       \/ pipe_kind = "cover_letter" /\ cv_preferences = NoPreferences
    /\ store_profile \in {"found", "absent", "raise"}
    /\ store_job \in {"found", "absent", "raise"}
    /\ proj_desc_none \in {{}, {3}}
    /\ profile_context = ""
    /\ job_context = ""
    /\ pipe_trace = <<>>
    /\ context = NoContext
    /\ pipe_cause = "none"
    /\ pipe_pc = "start"
    \* the environment select_relevant_projects will meet
    /\ sel_job \in PipeJobCatalog
    /\ vs_index \in PipeIndexCatalog
    /\ \/ /\ vs_job = "found"
          /\ vs_query_raises = FALSE
          /\ db_projects \in PipeDbCatalog
       \/ /\ \E f \in {<<"raise", FALSE>>, <<"missing", FALSE>>, <<"found", TRUE>>} :
                vs_job = f[1] /\ vs_query_raises = f[2]
          /\ db_projects = [id \in ProjectIds |-> "ok"]
    /\ max_projects = 0
    /\ relevant_projects = <<>>
    /\ sel_k = 0
    /\ scored_projects = <<>>
    /\ selected = <<>>
    /\ sel_exc = FALSE
    /\ sel_pc = "idle"

\* Step 1 (lines 54-56, 110-112): retrieve the profile context.
PipeProfile ==
    /\ pipe_pc = "start"
    /\ pipe_trace' = Append(pipe_trace, "profile")
    /\ LET r == get_profile_context(store_profile)
       IN  IF r.exc
             THEN /\ pipe_pc' = "raised"
                  /\ pipe_cause' = "store_read"
                  /\ UNCHANGED profile_context
             ELSE /\ profile_context' = r.val
                  /\ pipe_pc' = "job"
                  /\ UNCHANGED pipe_cause
    /\ UNCHANGED <<pipe_kind, cv_preferences, store_profile, store_job,
                   proj_desc_none, job_context, context>>
    /\ UNCHANGED <<rankVars, selVars, optVars>>

\* Step 2 (lines 58-61, 114-117): retrieve the job context.
PipeJob ==
    /\ pipe_pc = "job"
    /\ pipe_trace' = Append(pipe_trace, "job")
    /\ LET r == get_job_context(store_job)
       IN  IF r.exc
             THEN /\ pipe_pc' = "raised"
                  /\ pipe_cause' = "store_read"
                  /\ UNCHANGED job_context
             ELSE /\ job_context' = r.val
                  /\ pipe_pc' = "projects"
                  /\ UNCHANGED pipe_cause
    /\ UNCHANGED <<pipe_kind, cv_preferences, store_profile, store_job,
                   proj_desc_none, profile_context, context>>
    /\ UNCHANGED <<rankVars, selVars, optVars>>

\* Step 3 (lines 67-73, 121-125): call select_relevant_projects.
PipeSelect ==
    /\ pipe_pc = "projects"
    /\ selection_enabled(pipe_kind, cv_preferences)
    /\ pipe_trace' = Append(pipe_trace, "select")
    /\ max_projects' = selection_size(pipe_kind, cv_preferences)
    /\ sel_pc' = "start"
    /\ pipe_pc' = "selecting"
    /\ UNCHANGED <<pipe_kind, cv_preferences, store_profile, store_job,
                   proj_desc_none, profile_context, job_context, context,
                   pipe_cause>>
    /\ UNCHANGED <<sel_job, vs_job, vs_query_raises, vs_index, db_projects,
                   relevant_projects, sel_k, scored_projects, selected, sel_exc>>
    /\ UNCHANGED <<rankVars, optVars>>

\* Lines 75-92, 127-137: format the selected projects, assemble the context
\* dictionary and return it.  Nothing else is called before the return.
PipeAssemble ==
    /\ \/ pipe_pc = "selecting" /\ sel_pc = "done"
       \/ pipe_pc = "projects" /\ ~selection_enabled(pipe_kind, cv_preferences)
    /\ pipe_trace' = Append(pipe_trace, "assemble")
    /\ LET r == format_projects_context(selected, proj_desc_none)
       IN  IF r.exc
             THEN /\ pipe_pc' = "raised"
                  /\ pipe_cause' = "format"
                  /\ UNCHANGED context
             ELSE /\ context' = [profile |-> profile_context,
                                 job |-> job_context,
                                 projects |-> r.val,
                                 selected_projects_data |-> selected]
                  /\ pipe_pc' = "returned"
                  /\ UNCHANGED pipe_cause
    /\ UNCHANGED <<pipe_kind, cv_preferences, store_profile, store_job,
                   proj_desc_none, profile_context, job_context>>
    /\ UNCHANGED <<rankVars, selVars, optVars>>

PipeNext ==
    \/ PipeProfile
    \/ PipeJob
    \/ PipeSelect
    \/ SelFind
    \/ SelScoreCandidate
    \/ SelSelect
    \/ PipeAssemble

(***************************************************************************)
(* Specifications.                                                         *)
(***************************************************************************)
\* rank_jobs on its inputs.
Init == RankInit /\ SelIdle /\ OptIdle /\ PipeIdle

Spec == Init /\ [][RankNext]_vars

\* select_relevant_projects on its inputs.
InitSelect == SelInit /\ RankIdle /\ OptIdle /\ PipeIdle

SpecSelect == InitSelect /\ [][SelNext]_vars

\* optimize_content on its inputs.
InitOptimize == OptInit /\ RankIdle /\ SelIdle /\ PipeIdle

SpecOptimize == InitOptimize /\ [][OptNext]_vars

\* build_context_for_cv and build_context_for_cover_letter on their inputs.
InitPipeline == PipeInit /\ RankIdle /\ OptIdle

SpecPipeline == InitPipeline /\ [][PipeNext]_vars

\* rank_jobs with its loop handed to a worker pool.
InitParallel == ParInit /\ SelIdle /\ OptIdle /\ PipeIdle

SpecParallel == InitParallel /\ [][ParNext]_vars

(***************************************************************************)
(* Claims about select_relevant_projects.                                  *)
(***************************************************************************)
\* C4: select_relevant_projects returns at most max_projects entries
\* (max_projects >= 0) and relevance_score is non-increasing along them.
C4_CappedAndSorted ==
    sel_pc = "done" =>
        /\ Len(selected) <= max_projects
        /\ \A k \in 1..(Len(selected) - 1) :
              selected[k].relevance_score >= selected[k + 1].relevance_score

\* A call that scored more candidates than max_projects = 2 and returned two
\* of them, strictly ordered, the first not being the nearest candidate.
C4_Witness ==
    /\ sel_pc = "done"
    /\ max_projects = 2
    /\ Len(scored_projects) > 2
    /\ Len(selected) = 2
    /\ selected[1].relevance_score > selected[2].relevance_score
    /\ selected[1].project_id # relevant_projects[1].project_id

\* C5: select_relevant_projects never propagates an exception; whenever
\* something raised during the call, the call returns an empty list.
C5_NeverPropagates ==
    /\ sel_pc # "raised"
    /\ (sel_pc = "done" /\ sel_exc) => selected = <<>>

\* A call in which a candidate had been scored before a later step raised.
C5_Witness ==
    /\ sel_pc = "done"
    /\ sel_exc
    /\ scored_projects # <<>>

(***************************************************************************)
(* Claims about optimize_content.                                          *)
(***************************************************************************)
Ceiling == WORD_LIMITS[clamp_pages(target_pages)].total

\* C3 as stated: the estimated word count of the returned content never
\* exceeds the total ceiling of the page count used.
C3_Original ==
    opt_pc = "done" => count_total_words(optimized) <= Ceiling

\* C3, amended: the estimated word count of the returned content exceeds the
\* ceiling only after the aggressive pass has been applied, the content then
\* holding at most 2 roles, 8 skills, a summary of at most 30 words and, on
\* one page, at most 1 project.
C3_Amended ==
    opt_pc = "done" =>
        \/ count_total_words(optimized) <= Ceiling
        \/ /\ aggressive
           /\ Len(optimized.experience) <= 2
           /\ Len(optimized.skills) <= 8
           /\ Len(optimized.summary) <= 30
           /\ clamp_pages(target_pages) = 1 => Len(optimized.projects) <= 1

\* A call whose first pass was over the ceiling and whose aggressive pass
\* brought the estimate under it.
C3_Witness ==
    /\ opt_pc = "done"
    /\ aggressive
    /\ count_total_words(first_pass(content, clamp_pages(target_pages),
                                    include_projects)) > Ceiling
    /\ count_total_words(optimized) <= Ceiling

SectionCapsOnePage(nproj) ==
    /\ Len(optimized.skills) <= 10
    /\ Len(optimized.experience) <= 3
    /\ \A k \in 1..Len(optimized.experience) :
          Len(optimized.experience[k].achievements) <= 3
    /\ Len(optimized.projects) <= nproj
    /\ Len(optimized.education) <= 2
    /\ Len(optimized.languages) <= 4

\* C6 as stated: with target_pages=1 and include_projects=True the result has
\* at most 10 skills, 3 roles, 3 bullets per role, 1 project, 2 degrees and
\* 4 languages.
C6_Original ==
    (opt_pc = "done" /\ target_pages = 1 /\ include_projects)
        => SectionCapsOnePage(1)

\* C6, amended: the same caps with at most 2 projects.
C6_Amended ==
    (opt_pc = "done" /\ target_pages = 1 /\ include_projects)
        => SectionCapsOnePage(2)

\* A one-page result, not cut by the aggressive pass, holding every cap: the
\* draft had more of each.
C6_Witness ==
    /\ opt_pc = "done" /\ target_pages = 1 /\ include_projects /\ ~aggressive
    /\ Len(content.skills) > 10 /\ Len(optimized.skills) = 10
    /\ Len(content.experience) > 3 /\ Len(optimized.experience) = 3
    /\ Len(content.experience[1].achievements) > 3
    /\ Len(optimized.experience[1].achievements) = 3
    /\ Len(content.projects) > 2 /\ Len(optimized.projects) = 2

\* The titles of a list of roles or projects.
Titles(list) == [k \in 1..Len(list) |-> list[k].title]

IsLeading(out, inp) == Len(out) <= Len(inp) /\ out = SubSeq(inp, 1, Len(out))

\* C7: with include_projects=True the result has at most 10 skills, 3 roles
\* and 2 projects for target_pages=1, at most 15, 5 and 4 for target_pages=2,
\* and its skills, roles and projects are the leading entries of the input
\* lists in input order (a role or project being named by its title).
C7_CapsAndLeadingEntries ==
    (opt_pc = "done" /\ include_projects /\ target_pages \in {1, 2}) =>
        /\ Len(optimized.skills) <= (IF target_pages = 1 THEN 10 ELSE 15)
        /\ Len(optimized.experience) <= (IF target_pages = 1 THEN 3 ELSE 5)
        /\ Len(optimized.projects) <= (IF target_pages = 1 THEN 2 ELSE 4)
        /\ IsLeading(optimized.skills, content.skills)
        /\ IsLeading(Titles(optimized.experience), Titles(content.experience))
        /\ IsLeading(Titles(optimized.projects), Titles(content.projects))

\* A two-page result that kept 15 of 16 skills, 5 of 6 roles, 4 of 5 projects.
C7_Witness ==
    /\ opt_pc = "done" /\ include_projects /\ target_pages = 2
    /\ Len(content.skills) = 16 /\ Len(optimized.skills) = 15
    /\ Len(content.experience) = 6 /\ Len(optimized.experience) = 5
    /\ Len(content.projects) = 5 /\ Len(optimized.projects) = 4

\* C8 as stated: whenever the returned summary has fewer words than the input
\* summary, it has at most the section limit (50 words on one page, 80 on two)
\* and ends with "...".
C8_Original ==
    (opt_pc = "done" /\ Len(optimized.summary) < Len(content.summary)) =>
        /\ Len(optimized.summary) <= WORD_LIMITS[clamp_pages(target_pages)].summary
        /\ EndsWithDots(optimized.summary)

(***************************************************************************)
(* Claims about build_context_for_cv and build_context_for_cover_letter.   *)
(***************************************************************************)
\* The steps of a CV context build in the order the specification gives.
ExpectedCvSteps ==
    <<"profile", "job">>
    \o (IF selection_enabled("cv", cv_preferences) THEN <<"select">> ELSE <<>>)
    \o <<"assemble", "optimize">>

\* C15 as stated: build_context_for_cv runs profile retrieval, job retrieval,
\* project selection (only when include_projects is enabled), section assembly
\* and budget optimization in this order, the optimizer being invoked on the
\* assembled content before the context is returned.
C15_Original ==
    (pipe_kind = "cv" /\ pipe_pc = "returned") => pipe_trace = ExpectedCvSteps

\* C16: a missing profile (resp. job) record makes its retrieval step return
\* the empty string without raising, a returned context has an empty 'profile'
\* (resp. 'job') string, and a call that raises does so because a store read
\* failed or a selected project could not be formatted, never because a record
\* is missing.
C16_MissingRecords ==
    /\ (store_profile = "absent" /\ pipe_pc \notin {"idle", "start"}) =>
          /\ pipe_trace # <<"profile">> \/ pipe_pc # "raised"
          /\ profile_context = ""
    /\ (store_job = "absent" /\ pipe_pc \notin {"idle", "start", "job"}) =>
          /\ pipe_trace # <<"profile", "job">> \/ pipe_pc # "raised"
          /\ job_context = ""
    /\ pipe_pc = "returned" =>
          /\ store_profile = "absent" => context.profile = ""
          /\ store_job = "absent" => context.job = ""
          /\ store_profile = "found" => context.profile # ""
          /\ store_job = "found" => context.job # ""
    /\ pipe_pc = "raised" =>
          \/ pipe_cause = "format"
          \/ store_profile = "raise"
          \/ store_job = "raise"

\* A cover-letter context returned for a missing profile and a stored job,
\* with projects selected.
C16_Witness ==
    /\ pipe_pc = "returned"
    /\ pipe_kind = "cover_letter"
    /\ store_profile = "absent"
    /\ store_job = "found"
    /\ context.profile = ""
    /\ context.job = "job_text"
    /\ context.selected_projects_data # <<>>

\* C17 as stated: no failure of an external call (store read, vector index
\* query, embedding lookup) made during a context build reaches the caller; a
\* context is returned with the affected part at its fallback value.
C17_Original ==
    /\ ~(pipe_pc = "raised" /\ pipe_cause = "store_read")
    /\ (pipe_pc = "returned" /\ sel_exc) =>
          /\ context.selected_projects_data = <<>>
          /\ context.projects = ""


(***************************************************************************)
(* Claims about the item caps of optimize_content.                         *)
(***************************************************************************)
\* The per-section pass of the draft of the current state for a page count.
PassFor(pages) == first_pass(content, pages, TRUE)

\* Whether the two-page pass keeps strictly more entries of a list than the
\* one-page pass whenever the one-page pass dropped entries of it.
StrictlyMore(full, one, two) == Len(one) < Len(full) => Len(two) > Len(one)

\* The caps that grow with the page count: skills, roles, bullets per role,
\* projects, highlights per project, education entries.
GrowingCaps ==
    LET one == PassFor(1)
        two == PassFor(2)
    IN  /\ StrictlyMore(content.skills, one.skills, two.skills)
        /\ StrictlyMore(content.experience, one.experience, two.experience)
        /\ \A k \in 1..Len(one.experience) :
              StrictlyMore(content.experience[k].achievements,
                           one.experience[k].achievements,
                           two.experience[k].achievements)
        /\ StrictlyMore(content.projects, one.projects, two.projects)
        /\ \A k \in 1..Len(one.projects) :
              StrictlyMore(content.projects[k].highlights,
                           one.projects[k].highlights,
                           two.projects[k].highlights)
        /\ StrictlyMore(content.education, one.education, two.education)

\* C21 as stated: for every section type with an item cap, languages
\* included, the cap applied for two pages is strictly greater than the cap
\* applied for one page.
C21_Original ==
    /\ GrowingCaps
    /\ StrictlyMore(content.languages, PassFor(1).languages, PassFor(2).languages)

\* C21, amended: the cap applied for two pages is strictly greater than the
\* cap for one page for skills, roles, bullets per role, projects, highlights
\* per project and education entries; the languages cap is the same (the
\* first 4) for both page counts.
C21_Amended ==
    /\ GrowingCaps
    /\ PassFor(1).languages = PassFor(2).languages
    /\ Len(PassFor(2).languages) <= 4

\* A two-page result for a draft that exceeds every cap: 15 skills, 5 roles of
\* 5 bullets, 4 projects of 3 highlights, 3 degrees and 4 of 5 languages, each
\* more than the one-page pass keeps, languages excepted.
C21_Witness ==
    /\ opt_pc = "done"
    /\ target_pages = 2
    /\ include_projects
    /\ Len(content.languages) = 5
    /\ Len(optimized.skills) = 15 /\ Len(PassFor(1).skills) = 10
    /\ Len(optimized.experience) = 5 /\ Len(PassFor(1).experience) = 3
    /\ Len(optimized.experience[1].achievements) = 5
    /\ Len(PassFor(1).experience[1].achievements) = 3
    /\ Len(optimized.projects) = 4 /\ Len(PassFor(1).projects) = 2
    /\ Len(optimized.projects[1].highlights) = 3
    /\ Len(PassFor(1).projects[1].highlights) = 2
    /\ Len(optimized.education) = 3 /\ Len(PassFor(1).education) = 2
    /\ Len(optimized.languages) = 4 /\ Len(PassFor(1).languages) = 4


(***************************************************************************)
(* Claims about the page count and the two passes of optimize_content.     *)
(***************************************************************************)
\* C22: for a target_pages value other than 1 and 2 (0, negative, 3 or more)
\* optimize_content raises nothing and returns exactly what it returns for
\* target_pages = 1 on the same content and include_projects flag: the
\* one-page per-section pass, followed by the one-page aggressive pass when
\* its estimate exceeds 415 words.
C22_ClampedToOnePage ==
    (opt_pc = "done" /\ target_pages \notin {1, 2}) =>
        LET one == first_pass(content, 1, include_projects)
        IN  optimized =
                IF count_total_words(one) > 415 THEN aggressive_optimize(one, 1)
                ELSE one

\* A call with target_pages = 3 that returned three roles and ten skills of a
\* draft with more of each, where two pages would keep five and fifteen.
C22_Witness ==
    /\ opt_pc = "done"
    /\ target_pages = 3
    /\ Len(content.experience) > 5
    /\ Len(content.skills) > 15
    /\ Len(optimized.experience) = 3
    /\ Len(optimized.skills) = 10

\* C23: the aggressive pass runs exactly when the estimate of the per-section
\* pass exceeds the total ceiling of the page count; after it the result has
\* at most 2 roles, at most 1 project on one page, a summary of at most 30
\* words and at most 8 skills; otherwise the per-section result is returned
\* unchanged.
C23_AggressivePass ==
    opt_pc = "done" =>
        LET pages == IF target_pages = 2 THEN 2 ELSE 1
            first == first_pass(content, pages, include_projects)
            ceiling == IF pages = 2 THEN 715 ELSE 415
        IN  /\ aggressive <=> count_total_words(first) > ceiling
            /\ aggressive =>
                  /\ Len(optimized.experience) <= 2
                  /\ pages = 1 => Len(optimized.projects) <= 1
                  /\ Len(optimized.summary) <= 30
                  /\ Len(optimized.skills) <= 8
            /\ ~aggressive => optimized = first

\* A one-page call whose per-section estimate is one word over the ceiling
\* (416) and whose result went through the aggressive pass.
C23_Witness ==
    /\ opt_pc = "done"
    /\ target_pages = 1
    /\ aggressive
    /\ count_total_words(first_pass(content, 1, include_projects)) = 416
    /\ Len(optimized.summary) = 30


\* C26 as stated: every experience entry returned by optimize_content has at
\* most 3 achievement bullets (one page) or 5 (two pages) and a description of
\* at most 50 words (plus the ellipsis marker), also when the entry carries
\* both achievements and a description.
C26_Original ==
    opt_pc = "done" =>
        \A k \in 1..Len(optimized.experience) :
            LET role == optimized.experience[k]
            IN  /\ Len(role.achievements) <= (IF target_pages = 2 THEN 5 ELSE 3)
                /\ role.has_desc => Len(role.description) <= 50

\* What optimize_content returns for the draft of the current state.
ResultFor(pages) ==
    LET first == first_pass(content, pages, include_projects)
    IN  IF over_limit(count_total_words(first), pages)
          THEN aggressive_optimize(first, pages)
          ELSE first

\* C29 as stated: each list section of the two-page result has at least as
\* many entries as the same section of the one-page result.
C29_Original ==
    (opt_pc = "done" /\ target_pages = 2) =>
        LET one == ResultFor(1)
        IN  /\ Len(optimized.skills) >= Len(one.skills)
            /\ Len(optimized.experience) >= Len(one.experience)
            /\ Len(optimized.projects) >= Len(one.projects)
            /\ Len(optimized.education) >= Len(one.education)
            /\ Len(optimized.languages) >= Len(one.languages)

\* C29, amended: the projects, education and languages sections of the
\* two-page result have at least as many entries as those of the one-page
\* result; so have skills and experience when the two-page call does not apply
\* the aggressive pass, and when it does they have at least min(8, n) skills
\* and min(2, n) roles, n being the one-page count.
C29_Amended ==
    (opt_pc = "done" /\ target_pages = 2) =>
        LET one == ResultFor(1)
        IN  /\ Len(optimized.projects) >= Len(one.projects)
            /\ Len(optimized.education) >= Len(one.education)
            /\ Len(optimized.languages) >= Len(one.languages)
            /\ ~aggressive =>
                  /\ Len(optimized.skills) >= Len(one.skills)
                  /\ Len(optimized.experience) >= Len(one.experience)
            /\ aggressive =>
                  /\ Len(optimized.skills) >= Min(8, Len(one.skills))
                  /\ Len(optimized.experience) >= Min(2, Len(one.experience))

\* A two-page result that went through the aggressive pass and keeps two
\* projects while the one-page result, not cut aggressively, keeps three roles.
C29_Witness ==
    /\ opt_pc = "done"
    /\ target_pages = 2
    /\ aggressive
    /\ Len(optimized.experience) = 2
    /\ Len(ResultFor(1).experience) = 3
    /\ Len(optimized.projects) >= 2
    /\ Len(ResultFor(1).projects) = 2


(***************************************************************************)
(* Claims about the candidates of select_relevant_projects.                *)
(***************************************************************************)
\* What the loop body does with one candidate in the current store state.
CandidateOutcome(proj_data) ==
    score_candidate(db_projects[proj_data.project_id],
                    ProjectPool[proj_data.project_id], sel_job, proj_data)

\* The entries of the candidates, from position k on, that can be scored.
RECURSIVE ScorableFrom(_)
ScorableFrom(k) ==
    IF k > Len(relevant_projects) THEN <<>>
    ELSE LET r == CandidateOutcome(relevant_projects[k])
         IN  (IF r.outcome = "scored" THEN <<r.entry>> ELSE <<>>)
             \o ScorableFrom(k + 1)

\* C24 as stated: a failure while processing one candidate (its store read or
\* its relevance computation raises) does not abort the selection: the other
\* candidates are scored and returned, sorted and capped.
C24_Original ==
    (/\ sel_pc = "done"
     /\ \E k \in 1..Len(relevant_projects) :
            CandidateOutcome(relevant_projects[k]).outcome = "raise") =>
        selected = select_top(ScorableFrom(1), max_projects)

\* The job dictionary has every key the selector reads bound to a value or
\* absent where a default exists.
WellFormedJob ==
    /\ ~job_id_raises(sel_job)
    /\ sel_job.required_skills.kind # "none"
    /\ sel_job.description.kind # "none"

\* The candidates requested from the index: the 2 * max_projects nearest.
Requested == SubSeq(vs_index, 1, Min(2 * max_projects, Len(vs_index)))

RequestedIds == {Requested[k].project_id : k \in 1..Len(Requested)}

\* The lower-cased skills of the job and technologies of a project.
JobSkills ==
    IF sel_job.required_skills.kind = "val"
      THEN {LowerTok(sel_job.required_skills.v[k]) :
                k \in 1..Len(sel_job.required_skills.v)}
      ELSE {}

ProjectTechs(id) ==
    {LowerTok(ProjectPool[id].technologies[k]) :
        k \in 1..Len(ProjectPool[id].technologies)}

\* Ten times the relevance the formula gives: 6 * 1/(1+distance) + 4 * overlap.
TenfoldRelevance(id) ==
    6 * (One \div (1 + ProjectPool[id].distance))
    + 4 * (IF JobSkills = {} THEN 0
           ELSE (One * Cardinality(JobSkills \cap ProjectTechs(id)))
                    \div Cardinality(JobSkills))

\* C25: when nothing fails, a candidate whose record is missing from the store
\* is skipped without error: the result holds only requested candidates whose
\* record exists, min(max_projects, number of them) of them, none twice, and
\* no candidate left out has a higher relevance than one returned.
C25_MissingSkipped ==
    (/\ sel_pc = "done"
     /\ WellFormedJob
     /\ vs_job = "found" /\ ~vs_query_raises
     /\ \A id \in RequestedIds : db_projects[id] # "raise") =>
        LET existing == {id \in RequestedIds : db_projects[id] = "ok"}
            returned == {selected[k].project_id : k \in 1..Len(selected)}
        IN  /\ ~sel_exc
            /\ returned \subseteq existing
            /\ Cardinality(returned) = Len(selected)
            /\ Len(selected) = Min(max_projects, Cardinality(existing))
            /\ \A id \in existing \ returned :
                  \A k \in 1..Len(selected) :
                      10 * selected[k].relevance_score >= TenfoldRelevance(id)

\* A call that returned fewer projects than max_projects because a requested
\* candidate, nearer than a returned one, has no record in the store.
C25_Witness ==
    /\ sel_pc = "done"
    /\ ~sel_exc
    /\ selected # <<>>
    /\ Len(selected) < max_projects
    /\ \E k \in 1..Len(relevant_projects) :
          /\ db_projects[relevant_projects[k].project_id] = "missing"
          /\ \E m \in 1..Len(selected) :
                relevant_projects[k].relevance > selected[m].semantic_similarity

\* C27: for every selected project relevance_score is
\* 0.6 * semantic_similarity + 0.4 * tech_overlap, semantic_similarity being
\* 1/(1 + distance) for the distance of that project and tech_overlap the
\* share of the job's skills among the project's technologies, compared in
\* lower case (0 when the job lists no skill); relevance_score lies in [0,1].
C27_RelevanceFormula ==
    \A k \in 1..Len(selected) :
        LET e == selected[k]
            id == e.project_id
        IN  /\ e.semantic_similarity * (1 + ProjectPool[id].distance) = One
            /\ e.tech_overlap * Cardinality(JobSkills)
                  = One * Cardinality(JobSkills \cap ProjectTechs(id))
            /\ JobSkills = {} => e.tech_overlap = 0
            /\ 10 * e.relevance_score
                  = 6 * e.semantic_similarity + 4 * e.tech_overlap
            /\ 0 <= e.relevance_score /\ e.relevance_score <= One

\* A selection holding a project whose technologies match in a different
\* letter case and cover part of the job's skills, and a project at a
\* positive distance.
C27_Witness ==
    /\ sel_pc = "done"
    /\ \E k \in 1..Len(selected) :
          /\ 0 < selected[k].tech_overlap
          /\ selected[k].tech_overlap < One
          /\ selected[k].project_id = 3
    /\ \E k \in 1..Len(selected) :
          /\ selected[k].semantic_similarity < One
          /\ selected[k].relevance_score > 0

(***************************************************************************)
(* Frame of rank_jobs: what a call leaves alone.                           *)
(***************************************************************************)
\* The entry at position p is a dictionary of its own holding the keys of
\* the input job at position k and the two score keys.
EntryOfInput(p, k) ==
    /\ DOMAIN ranked_jobs[p] = {"job", "match_score", "match_score_breakdown"}
    /\ ranked_jobs[p].job = jobs_in[k]

\* C30: rank_jobs leaves the input list and every job dictionary as they
\* were passed; every returned entry is a new dictionary equal to one input
\* job plus match_score and match_score_breakdown; and with top_n unset the
\* returned entries are a permutation of the input jobs.
C30_InputUnchanged ==
    /\ jobs = jobs_in
    /\ \A p \in 1..Len(ranked_jobs) : \E k \in 1..Len(jobs_in) : EntryOfInput(p, k)
    /\ (rank_pc = "done" /\ ~top_n.set) =>
          /\ Len(ranked_jobs) = Len(jobs_in)
          /\ \A k \in 1..Len(jobs_in) :
                \E p \in 1..Len(ranked_jobs) : EntryOfInput(p, k)

\* A finished call without top_n over several jobs, one of which failed to
\* score, whose result is ordered differently from the input.
C30_Witness ==
    /\ rank_pc = "done"
    /\ ~top_n.set
    /\ Len(jobs_in) >= 2
    /\ ranked_jobs[1].job # jobs_in[1]
    /\ \E p \in 1..Len(ranked_jobs) : ranked_jobs[p].match_score_breakdown = "empty"

(***************************************************************************)
(* rank_jobs with a worker pool against the sequential loop.               *)
(***************************************************************************)
\* The entry the sequential loop builds for the job at position k.
SequentialEntry(k) == score_one_job(db_user, vs_profile, jobs_in[k]).entry

\* The list the sequential loop returns.
SequentialRanking ==
    truncate_top_n(
        sort_by_match_score([k \in 1..Len(jobs_in) |-> SequentialEntry(k)]),
        top_n)

\* The entries of the pool taken by the position of their job.
SlotsInInputOrder == [k \in 1..Len(jobs_in) |-> par_slots[k]]

CompletedInInputOrder ==
    \A p \in 1..Len(par_order) : par_order[p] = p

NoTies ==
    \A k, l \in 1..Len(jobs_in) :
        k # l => SequentialEntry(k).match_score # SequentialEntry(l).match_score

=============================================================================
